---- MODULE Spec2Model ----
(***************************************************************************)
(* State machine of the ICRC-1/2/3 token ledger canister                   *)
(* (tools/icrc-3/backend/src/lib.rs, types.rs).                             *)
(*                                                                         *)
(* Every #[update] handler is one action: a canister executes one message  *)
(* at a time and no handler awaits, so a handler runs from its first read  *)
(* to its last write without interruption.  The observation variables      *)
(* `call` and `result` hold the last message executed and what it returned. *)
(***************************************************************************)
EXTENDS Integers, Sequences, FiniteSets, TLC

VARIABLES balances, allowances, transactions, token_data, now, upgrades, call,
          result

vars == <<balances, allowances, transactions, token_data, now, upgrades, call,
          result>>

stores == <<balances, allowances, transactions, token_data>>

-----------------------------------------------------------------------------
(* Option<T>: None is the empty tuple, Some(x) the one-element tuple.        *)

None == <<>>

Some(x) == <<x>>

is_some(o) == o # None

is_none(o) == o = None

unwrap(o) == o[1]

unwrap_or(o, d) == IF o = None THEN d ELSE o[1]

-----------------------------------------------------------------------------
(* Bounds of the model.                                                    *)

\* Calls that append a block are explored while fewer than MaxBlocks blocks exist.
MaxBlocks == 3

\* The ledger clock advances at most MaxTicks times.
MaxTicks == 1

\* Mints are explored while total_supply stays within MaxSupplyUnits fees.
MaxSupplyUnits == 4

\* SpecChecks appends at most MaxCheckBlocks blocks.
MaxCheckBlocks == 2

\* SpecUpgrade upgrades the canister at most MaxUpgrades times.
MaxUpgrades == 1

\* The number of blocks appended in the runs that exercise allowances.
MaxAllowanceBlocks == 3

\* The number of blocks appended in the runs that exercise mint and burn.
MaxSupplyBlocks == 3

\* The number of blocks appended in the runs that read ranges of the log.
MaxRangeBlocks == 3

\* The number of blocks appended in the runs that call the queries.
MaxQueryBlocks == 3

\* The number of blocks appended in the runs that export blocks.
MaxExportBlocks == 3

-----------------------------------------------------------------------------
(* Program constants.                                                      *)

\* lib.rs:43  fee: Nat::from(10_000)
FEE == 10000

\* lib.rs:42  decimals: 8
DECIMALS == 8

\* lib.rs:55  24 hours; the model counts time in seconds where the code counts
\* nanoseconds (TLC integers are 32 bits wide), every comparison is unchanged.
TX_WINDOW == 24 * 60 * 60

\* The first instant of the ledger clock in the model: late enough that
\* now - TX_WINDOW - 1 is still a u64.
T0 == TX_WINDOW + 2

Anonymous == "anonymous"

Alice == "alice"

Account(owner, subaccount) == [owner |-> owner, subaccount |-> subaccount]

\* lib.rs:54
DEFAULT_SUBACCOUNT == None

-----------------------------------------------------------------------------
(* Stable maps (StableBTreeMap): partial functions with get/insert/remove. *)

contains_key(m, k) == k \in DOMAIN m

get(m, k) == IF k \in DOMAIN m THEN Some(m[k]) ELSE None

insert(m, k, v) == [x \in (DOMAIN m) \cup {k} |-> IF x = k THEN v ELSE m[x]]

remove(m, k) == [x \in (DOMAIN m) \ {k} |-> m[x]]

len(m) == Cardinality(DOMAIN m)

EmptyMap == [x \in {} |-> 0]

-----------------------------------------------------------------------------
(* Results.                                                                *)

Ok(v) == [tag |-> "Ok", value |-> v]

Err(e) == [tag |-> "Err", err |-> e]

NoResult == [tag |-> "None"]

CreatedInFuture(t) == [kind |-> "CreatedInFuture", ledger_time |-> t]

TooOld == [kind |-> "TooOld"]

BadFee(f) == [kind |-> "BadFee", expected_fee |-> f]

InsufficientFunds(b) == [kind |-> "InsufficientFunds", balance |-> b]

InsufficientAllowance(a) == [kind |-> "InsufficientAllowance", allowance |-> a]

AllowanceChanged(a) == [kind |-> "AllowanceChanged", current_allowance |-> a]

Expired(t) == [kind |-> "Expired", ledger_time |-> t]

GenericError(c, m) == [kind |-> "GenericError", error_code |-> c, message |-> m]

-----------------------------------------------------------------------------
(* Transaction records (types.rs).                                         *)

Transaction_mint(mint, timestamp) ==
    [kind |-> "mint", timestamp |-> timestamp, mint |-> Some(mint),
     burn |-> None, transfer |-> None, approve |-> None]

Transaction_burn(burn, timestamp) ==
    [kind |-> "burn", timestamp |-> timestamp, mint |-> None,
     burn |-> Some(burn), transfer |-> None, approve |-> None]

\* A transfer record stamped with the caller's creation time when it has one.
Transaction_transfer_mut(transfer, timestamp) ==
    [kind |-> "transfer",
     timestamp |-> unwrap_or(transfer.created_at_time, timestamp),
     mint |-> None, burn |-> None, transfer |-> Some(transfer),
     approve |-> None]

Transaction_transfer(transfer, timestamp) ==
    [kind |-> "transfer", timestamp |-> timestamp, mint |-> None,
     burn |-> None, transfer |-> Some(transfer), approve |-> None]

Transaction_approve(approve, timestamp) ==
    [kind |-> "approve", timestamp |-> timestamp, mint |-> None,
     burn |-> None, transfer |-> None, approve |-> Some(approve)]

-----------------------------------------------------------------------------
(* Initial state: empty stable maps and the TOKEN_DATA literal.            *)

InitTokenData ==
    [name |-> "ICRC3 Token",
     symbol |-> "ICR3",
     decimals |-> DECIMALS,
     fee |-> FEE,
     total_supply |-> 0,
     minting_account |-> Some(Account(Anonymous, None)),
     next_block_index |-> 0]

Init ==
    /\ balances = EmptyMap
    /\ allowances = EmptyMap
    /\ transactions = EmptyMap
    /\ token_data = InitTokenData
    /\ now = T0
    /\ upgrades = 0
    /\ call = [op |-> "none"]
    /\ result = NoResult


-----------------------------------------------------------------------------
(* Helpers of lib.rs.                                                      *)

\* The largest block index a u64 holds.  The model scales the width down so
\* that values beyond it can be written; no run appends that many blocks.
U64Max == 15

\* num_traits::ToPrimitive::to_u64 on a Nat
to_u64(n) == IF n <= U64Max THEN Some(n) ELSE None

\* A conversion that never fits: every index becomes 0.
StableBlockIndex_from_nat_mut(nat) == 0

\* StableBlockIndex::from_nat: the u64 of the Nat, 0 if it does not fit
StableBlockIndex_from_nat(nat) == unwrap_or(to_u64(nat), 0)

\* get_caller_account
get_caller_account(caller) == Account(caller, DEFAULT_SUBACCOUNT)

\* get_account_balance over a balances map
balance_in(bals, account) == unwrap_or(get(bals, account), 0)

get_account_balance(account) == balance_in(balances, account)

\* record_transaction that leaves next_block_index where it was.
record_transaction_mut(data, txs, tx) ==
    LET block_index == data.next_block_index
        stable_block_index == StableBlockIndex_from_nat(block_index)
    IN  [data |-> data,
         txs |-> insert(txs, stable_block_index, tx),
         block_index |-> block_index]

\* record_transaction that hands back the index after the one it used.
record_transaction_next_mut(data, txs, tx) ==
    LET block_index == data.next_block_index
        stable_block_index == StableBlockIndex_from_nat(block_index)
    IN  [data |-> [data EXCEPT !.next_block_index = block_index + 1],
         txs |-> insert(txs, stable_block_index, tx),
         block_index |-> block_index + 1]

\* record_transaction: takes the next index from the token data, advances it,
\* and inserts the transaction under the u64 of that index.
record_transaction(data, txs, tx) ==
    LET block_index == data.next_block_index
        stable_block_index == StableBlockIndex_from_nat(block_index)
    IN  [data |-> [data EXCEPT !.next_block_index = block_index + 1],
         txs |-> insert(txs, stable_block_index, tx),
         block_index |-> block_index]

\* A freshness check whose window excludes its oldest instant.
check_created_at_time_mut(created_at_time, t) ==
    IF is_some(created_at_time)
    THEN LET created_at == unwrap(created_at_time) IN
         IF created_at > t THEN Some(CreatedInFuture(t))
         ELSE IF t >= created_at + TX_WINDOW THEN Some(TooOld)
         ELSE None
    ELSE None

\* The created_at_time validation shared by transfer, approve and transfer_from:
\* the error it returns, or None.
check_created_at_time(created_at_time, t) ==
    IF is_some(created_at_time)
    THEN LET created_at == unwrap(created_at_time) IN
         IF created_at > t THEN Some(CreatedInFuture(t))
         ELSE IF t > created_at + TX_WINDOW THEN Some(TooOld)
         ELSE None
    ELSE None

\* A fee check that reports the fee it was given.
check_fee_mut(fee, expected_fee) ==
    IF fee # expected_fee THEN Some(BadFee(fee)) ELSE None

\* The fee validation shared by transfer, approve and transfer_from.
check_fee(fee, expected_fee) ==
    IF fee # expected_fee THEN Some(BadFee(expected_fee)) ELSE None

\* A debit that writes the deduction where the remainder belongs.
debit_mut(bals, from, from_balance, total_deduction) ==
    IF from_balance = total_deduction
    THEN remove(bals, from)
    ELSE insert(bals, from, total_deduction)

\* The debit of the payer: the entry is removed when the deduction is the
\* whole balance and rewritten otherwise.
debit(bals, from, from_balance, total_deduction) ==
    IF from_balance = total_deduction
    THEN remove(bals, from)
    ELSE insert(bals, from, from_balance - total_deduction)

\* A credit that overwrites the recipient's balance with the amount.
credit_mut(bals, to, amount) ==
    insert(bals, to, amount)

\* A credit that adds to the balance the recipient had before the debit.
credit_stale_mut(bals, to, amount) ==
    insert(bals, to, get_account_balance(to) + amount)

\* The credit of the recipient: read after the debit, created at 0 if absent.
credit(bals, to, amount) ==
    insert(bals, to, unwrap_or(get(bals, to), 0) + amount)

\* An early return taken after the block index has already been advanced.
early_return_mut(e) ==
    /\ result' = Err(e)
    /\ token_data' = [token_data EXCEPT !.next_block_index = @ + 1]
    /\ UNCHANGED <<balances, allowances, transactions>>

\* An early `return ...::Err(e)`: the handler ends before any store is written.
early_return(e) ==
    /\ result' = Err(e)
    /\ UNCHANGED stores

-----------------------------------------------------------------------------
(* icrc1_transfer (lib.rs:140-217)                                         *)

\* A pipeline whose funds check forgets the fee.
icrc1_transfer_validate_mut(from, amount, fee, created_at_time) ==
    LET time_err == check_created_at_time(created_at_time, now)
        fee_err == check_fee(fee, token_data.fee)
        from_balance == get_account_balance(from)
    IN  IF is_some(time_err) THEN time_err
        ELSE IF is_some(fee_err) THEN fee_err
        ELSE IF from_balance < amount
             THEN Some(InsufficientFunds(from_balance))
        ELSE None

\* The validation pipeline: the first error met, or None.
icrc1_transfer_validate(from, amount, fee, created_at_time) ==
    LET time_err == check_created_at_time(created_at_time, now)
        fee_err == check_fee(fee, token_data.fee)
        from_balance == get_account_balance(from)
        total_deduction == amount + fee
    IN  IF is_some(time_err) THEN time_err
        ELSE IF is_some(fee_err) THEN fee_err
        ELSE IF from_balance < total_deduction
             THEN Some(InsufficientFunds(from_balance))
        ELSE None

icrc1_transfer(caller, args) ==
    LET from == Account(caller, args.from_subaccount)
        to == args.to
        amount == args.amount
        fee == unwrap_or(args.fee, token_data.fee)
        err == icrc1_transfer_validate(from, amount, fee, args.created_at_time)
        from_balance == get_account_balance(from)
        total_deduction == amount + fee
        transfer == [amount |-> amount, from |-> from, to |-> to,
                     spender |-> None, memo |-> args.memo, fee |-> Some(fee),
                     created_at_time |-> args.created_at_time]
        rec == record_transaction(token_data, transactions,
                                  Transaction_transfer(transfer, now))
    IN  /\ call' = [op |-> "icrc1_transfer", caller |-> caller, args |-> args]
        /\ UNCHANGED <<now, upgrades>>
        /\ IF is_some(err)
           THEN early_return(unwrap(err))
           ELSE /\ balances' = credit(debit(balances, from, from_balance,
                                            total_deduction), to, amount)
                /\ token_data' = rec.data
                /\ transactions' = rec.txs
                /\ result' = Ok(rec.block_index)
                /\ UNCHANGED allowances

-----------------------------------------------------------------------------
(* icrc2_approve (lib.rs:220-325)                                          *)

\* A pipeline that checks the expiry before the expected allowance.
icrc2_approve_validate_mut(from, spender, fee, expected_allowance, expires_at, created_at_time) ==
    LET time_err == check_created_at_time(created_at_time, now)
        fee_err == check_fee(fee, token_data.fee)
        from_balance == get_account_balance(from)
        current == IF contains_key(allowances, <<from, spender>>)
                   THEN allowances[<<from, spender>>].allowance
                   ELSE 0
    IN  IF is_some(time_err) THEN time_err
        ELSE IF is_some(fee_err) THEN fee_err
        ELSE IF from_balance < fee
             THEN Some(InsufficientFunds(from_balance))
        ELSE IF is_some(expires_at) /\ unwrap(expires_at) < now
             THEN Some(Expired(now))
        ELSE IF is_some(expected_allowance) /\ current # unwrap(expected_allowance)
             THEN Some(AllowanceChanged(current))
        ELSE None

\* A pipeline whose funds check asks for more than the fee.
icrc2_approve_validate_funds_mut(from, spender, fee, expected_allowance, expires_at, created_at_time) ==
    LET time_err == check_created_at_time(created_at_time, now)
        fee_err == check_fee(fee, token_data.fee)
        from_balance == get_account_balance(from)
        current == IF contains_key(allowances, <<from, spender>>)
                   THEN allowances[<<from, spender>>].allowance
                   ELSE 0
    IN  IF is_some(time_err) THEN time_err
        ELSE IF is_some(fee_err) THEN fee_err
        ELSE IF from_balance <= fee
             THEN Some(InsufficientFunds(from_balance))
        ELSE IF is_some(expected_allowance) /\ current # unwrap(expected_allowance)
             THEN Some(AllowanceChanged(current))
        ELSE IF is_some(expires_at) /\ unwrap(expires_at) < now
             THEN Some(Expired(now))
        ELSE None

\* A pipeline that compares the expected allowance only with a stored entry.
icrc2_approve_validate_cas_mut(from, spender, fee, expected_allowance, expires_at, created_at_time) ==
    LET time_err == check_created_at_time(created_at_time, now)
        fee_err == check_fee(fee, token_data.fee)
        from_balance == get_account_balance(from)
        stored == contains_key(allowances, <<from, spender>>)
    IN  IF is_some(time_err) THEN time_err
        ELSE IF is_some(fee_err) THEN fee_err
        ELSE IF from_balance < fee
             THEN Some(InsufficientFunds(from_balance))
        ELSE IF /\ is_some(expected_allowance)
                /\ stored
                /\ allowances[<<from, spender>>].allowance
                      # unwrap(expected_allowance)
             THEN Some(AllowanceChanged(allowances[<<from, spender>>].allowance))
        ELSE IF is_some(expires_at) /\ unwrap(expires_at) < now
             THEN Some(Expired(now))
        ELSE None

icrc2_approve_validate(from, spender, fee, expected_allowance, expires_at, created_at_time) ==
    LET time_err == check_created_at_time(created_at_time, now)
        fee_err == check_fee(fee, token_data.fee)
        from_balance == get_account_balance(from)
        current == IF contains_key(allowances, <<from, spender>>)
                   THEN allowances[<<from, spender>>].allowance
                   ELSE 0
    IN  IF is_some(time_err) THEN time_err
        ELSE IF is_some(fee_err) THEN fee_err
        ELSE IF from_balance < fee
             THEN Some(InsufficientFunds(from_balance))
        ELSE IF is_some(expected_allowance) /\ current # unwrap(expected_allowance)
             THEN Some(AllowanceChanged(current))
        ELSE IF is_some(expires_at) /\ unwrap(expires_at) < now
             THEN Some(Expired(now))
        ELSE None

\* An allowance update that adds the amount to the stored one.
set_allowance_mut(alls, from, spender, amount, expires_at) ==
    insert(alls, <<from, spender>>,
           [allowance |-> unwrap_or(get(alls, <<from, spender>>),
                                    [allowance |-> 0]).allowance + amount,
            expires_at |-> expires_at])

\* The allowance update of approve: the entry of the pair is written anew.
set_allowance(alls, from, spender, amount, expires_at) ==
    insert(alls, <<from, spender>>,
           [allowance |-> amount, expires_at |-> expires_at])

icrc2_approve(caller, args) ==
    LET from == Account(caller, args.from_subaccount)
        spender == args.spender
        amount == args.amount
        fee == unwrap_or(args.fee, token_data.fee)
        err == icrc2_approve_validate(from, spender, fee, args.expected_allowance,
                                      args.expires_at, args.created_at_time)
        from_balance == get_account_balance(from)
        approve == [from |-> from, spender |-> spender, amount |-> amount,
                    expected_allowance |-> args.expected_allowance,
                    expires_at |-> args.expires_at, memo |-> args.memo,
                    fee |-> Some(fee), created_at_time |-> args.created_at_time]
        rec == record_transaction(token_data, transactions,
                                  Transaction_approve(approve, now))
    IN  /\ call' = [op |-> "icrc2_approve", caller |-> caller, args |-> args]
        /\ UNCHANGED <<now, upgrades>>
        /\ IF is_some(err)
           THEN early_return(unwrap(err))
           ELSE /\ balances' = debit(balances, from, from_balance, fee)
                /\ allowances' = set_allowance(allowances, from, spender, amount,
                                               args.expires_at)
                /\ token_data' = rec.data
                /\ transactions' = rec.txs
                /\ result' = Ok(rec.block_index)

\* icrc2_allowance (lib.rs:328-342)
icrc2_allowance(account, spender) ==
    unwrap_or(get(allowances, <<account, spender>>),
              [allowance |-> 0, expires_at |-> None])


-----------------------------------------------------------------------------
(* icrc2_transfer_from (lib.rs:345-470)                                    *)

\* A pipeline that checks the funds before the fee.
icrc2_transfer_from_validate_mut(spender, from, amount, fee, created_at_time) ==
    LET time_err == check_created_at_time(created_at_time, now)
        fee_err == check_fee(fee, token_data.fee)
        from_balance == get_account_balance(from)
        total_deduction == amount + fee
        allowance == icrc2_allowance(from, spender)
    IN  IF is_some(time_err) THEN time_err
        ELSE IF from_balance < total_deduction
             THEN Some(InsufficientFunds(from_balance))
        ELSE IF is_some(fee_err) THEN fee_err
        ELSE IF is_some(allowance.expires_at) /\ unwrap(allowance.expires_at) < now
             THEN Some(InsufficientAllowance(0))
        ELSE IF allowance.allowance < amount
             THEN Some(InsufficientAllowance(allowance.allowance))
        ELSE None

\* A pipeline that does not compare the allowance with the amount.
icrc2_transfer_from_validate_amount_mut(spender, from, amount, fee, created_at_time) ==
    LET time_err == check_created_at_time(created_at_time, now)
        fee_err == check_fee(fee, token_data.fee)
        from_balance == get_account_balance(from)
        total_deduction == amount + fee
        allowance == icrc2_allowance(from, spender)
    IN  IF is_some(time_err) THEN time_err
        ELSE IF is_some(fee_err) THEN fee_err
        ELSE IF from_balance < total_deduction
             THEN Some(InsufficientFunds(from_balance))
        ELSE IF is_some(allowance.expires_at) /\ unwrap(allowance.expires_at) < now
             THEN Some(InsufficientAllowance(0))
        ELSE None

\* A pipeline for which an allowance expires at its expires_at, not after it.
icrc2_transfer_from_validate_expiry_mut(spender, from, amount, fee, created_at_time) ==
    LET time_err == check_created_at_time(created_at_time, now)
        fee_err == check_fee(fee, token_data.fee)
        from_balance == get_account_balance(from)
        total_deduction == amount + fee
        allowance == icrc2_allowance(from, spender)
    IN  IF is_some(time_err) THEN time_err
        ELSE IF is_some(fee_err) THEN fee_err
        ELSE IF from_balance < total_deduction
             THEN Some(InsufficientFunds(from_balance))
        ELSE IF is_some(allowance.expires_at) /\ unwrap(allowance.expires_at) <= now
             THEN Some(InsufficientAllowance(0))
        ELSE IF allowance.allowance < amount
             THEN Some(InsufficientAllowance(allowance.allowance))
        ELSE None

icrc2_transfer_from_validate(spender, from, amount, fee, created_at_time) ==
    LET time_err == check_created_at_time(created_at_time, now)
        fee_err == check_fee(fee, token_data.fee)
        from_balance == get_account_balance(from)
        total_deduction == amount + fee
        allowance == icrc2_allowance(from, spender)
    IN  IF is_some(time_err) THEN time_err
        ELSE IF is_some(fee_err) THEN fee_err
        ELSE IF from_balance < total_deduction
             THEN Some(InsufficientFunds(from_balance))
        ELSE IF is_some(allowance.expires_at) /\ unwrap(allowance.expires_at) < now
             THEN Some(InsufficientAllowance(0))
        ELSE IF allowance.allowance < amount
             THEN Some(InsufficientAllowance(allowance.allowance))
        ELSE None

\* An allowance decrement that loses the expiry of the entry.
spend_allowance_mut(alls, from, spender, allowance, amount) ==
    LET new_allowance == allowance.allowance - amount
    IN  IF new_allowance = 0
        THEN remove(alls, <<from, spender>>)
        ELSE insert(alls, <<from, spender>>,
                    [allowance |-> new_allowance, expires_at |-> None])

\* The allowance after a transfer_from: removed at exactly 0, else rewritten
\* with the expiry it had.
spend_allowance(alls, from, spender, allowance, amount) ==
    LET new_allowance == allowance.allowance - amount
    IN  IF new_allowance = 0
        THEN remove(alls, <<from, spender>>)
        ELSE insert(alls, <<from, spender>>,
                    [allowance |-> new_allowance,
                     expires_at |-> allowance.expires_at])

icrc2_transfer_from(caller, args) ==
    LET spender == Account(caller, args.spender_subaccount)
        from == args.from
        to == args.to
        amount == args.amount
        fee == unwrap_or(args.fee, token_data.fee)
        err == icrc2_transfer_from_validate(spender, from, amount, fee,
                                            args.created_at_time)
        from_balance == get_account_balance(from)
        total_deduction == amount + fee
        allowance == icrc2_allowance(from, spender)
        transfer == [amount |-> amount, from |-> from, to |-> to,
                     spender |-> Some(spender), memo |-> args.memo,
                     fee |-> Some(fee), created_at_time |-> args.created_at_time]
        rec == record_transaction(token_data, transactions,
                                  Transaction_transfer(transfer, now))
    IN  /\ call' = [op |-> "icrc2_transfer_from", caller |-> caller, args |-> args]
        /\ UNCHANGED <<now, upgrades>>
        /\ IF is_some(err)
           THEN early_return(unwrap(err))
           ELSE /\ balances' = credit(debit(balances, from, from_balance,
                                            total_deduction), to, amount)
                /\ allowances' = spend_allowance(allowances, from, spender,
                                                 allowance, amount)
                /\ token_data' = rec.data
                /\ transactions' = rec.txs
                /\ result' = Ok(rec.block_index)

-----------------------------------------------------------------------------
(* mint (lib.rs:510-553)                                                   *)

\* An authorization that only asks for a minting account to be set.
mint_authorized_mut(caller) == ~ is_none(token_data.minting_account)

mint_authorized(caller) ==
    ~ ( is_none(token_data.minting_account)
        \/ unwrap(token_data.minting_account).owner # caller )

\* data.total_supply += amount
add_total_supply(data, amount) == [data EXCEPT !.total_supply = @ + amount]

mint(caller, to, amount) ==
    LET data == add_total_supply(token_data, amount)
        m == [amount |-> amount, to |-> to, memo |-> None,
              created_at_time |-> Some(now)]
        rec == record_transaction(data, transactions, Transaction_mint(m, now))
    IN  /\ call' = [op |-> "mint", caller |-> caller,
                    args |-> [to |-> to, amount |-> amount]]
        /\ UNCHANGED <<now, upgrades>>
        /\ IF ~ mint_authorized(caller)
           THEN early_return(GenericError(1,
                               "Only the minting account can mint tokens"))
           ELSE /\ balances' = credit(balances, to, amount)
                /\ token_data' = rec.data
                /\ transactions' = rec.txs
                /\ result' = Ok(rec.block_index)
                /\ UNCHANGED allowances

-----------------------------------------------------------------------------
(* update_minting_account (lib.rs:556-570)                                 *)

\* An update reserved to the owner of the current minting account.
update_minting_account_mut(caller, new_minting_account) ==
    /\ call' = [op |-> "update_minting_account", caller |-> caller,
                args |-> [new_minting_account |-> new_minting_account]]
    /\ IF mint_authorized(caller)
       THEN /\ token_data' = [token_data EXCEPT
                                !.minting_account = Some(new_minting_account)]
            /\ result' = Ok(<<>>)
       ELSE /\ token_data' = token_data
            /\ result' = Err("Only the minting account can update it")
    /\ UNCHANGED <<balances, allowances, transactions, now, upgrades>>

update_minting_account(caller, new_minting_account) ==
    /\ call' = [op |-> "update_minting_account", caller |-> caller,
                args |-> [new_minting_account |-> new_minting_account]]
    /\ token_data' = [token_data EXCEPT
                        !.minting_account = Some(new_minting_account)]
    /\ result' = Ok(<<>>)
    /\ UNCHANGED <<balances, allowances, transactions, now, upgrades>>

-----------------------------------------------------------------------------
(* burn (lib.rs:573-633)                                                   *)

\* A balance write that drops the entry whatever remains.
burn_balance_mut(bals, from, from_balance, amount) == remove(bals, from)

\* The balance write of burn: the entry is re-read and removed when it holds
\* exactly the amount.
burn_balance(bals, from, from_balance, amount) ==
    IF unwrap_or(get(bals, from), 0) = amount
    THEN remove(bals, from)
    ELSE insert(bals, from, from_balance - amount)

\* A trap (a Rust panic) aborts the message; the runtime discards every write
\* the message made.
Trap == [tag |-> "Trap"]

\* A burn that forgets the total supply.
sub_total_supply_mut(data, amount) == data

\* data.total_supply -= amount
sub_total_supply(data, amount) == [data EXCEPT !.total_supply = @ - amount]

burn(caller, from, amount) ==
    LET from_balance == get_account_balance(from)
        data == sub_total_supply(token_data, amount)
        b == [amount |-> amount, from |-> from, spender |-> None,
              memo |-> None, created_at_time |-> Some(now)]
        rec == record_transaction(data, transactions, Transaction_burn(b, now))
    IN  /\ call' = [op |-> "burn", caller |-> caller,
                    args |-> [from |-> from, amount |-> amount]]
        /\ UNCHANGED <<now, upgrades>>
        /\ IF from.owner # caller
           THEN early_return(GenericError(1,
                               "Only the account owner can burn their tokens"))
           ELSE IF from_balance < amount
           THEN early_return(InsufficientFunds(from_balance))
           ELSE IF token_data.total_supply < amount
           THEN \* total_supply -= amount underflows: Nat subtraction panics
                /\ result' = Trap
                /\ UNCHANGED stores
           ELSE /\ balances' = burn_balance(balances, from, from_balance, amount)
                /\ token_data' = rec.data
                /\ transactions' = rec.txs
                /\ result' = Ok(rec.block_index)
                /\ UNCHANGED allowances

-----------------------------------------------------------------------------
(* icrc3_get_blocks (lib.rs:473-507) and the block encoding (lib.rs:636-730) *)

\* The variants of Value (types.rs:597-606).
Value_Blob(b) == [Blob |-> b]

Value_Text(t) == [Text |-> t]

Value_Nat(n) == [Nat |-> n]

Value_Nat64(n) == [Nat64 |-> n]

Value_Array(a) == [Array |-> a]

Value_Map(m) == [Map |-> m]

\* Principal::as_slice: the bytes of a principal; the anonymous principal is
\* the single byte 4, another principal is named by bytes of its own.
as_slice(owner) == IF owner = Anonymous THEN <<4>> ELSE <<1, 1>>

\* The bytes of a subaccount, which the model names by its last byte.
to_vec(subaccount) == <<subaccount>>

\* account_to_value: [Blob(owner)] or [Blob(owner), Blob(subaccount)]
account_to_value(account) ==
    Value_Array(<<Value_Blob(as_slice(account.owner))>>
                \o (IF is_some(account.subaccount)
                    THEN <<Value_Blob(to_vec(unwrap(account.subaccount)))>>
                    ELSE <<>>))

\* if let Some(x) = o { map.push((key, Value::Nat(x))) }
push_nat(key, o) ==
    IF is_some(o) THEN << <<key, Value_Nat(unwrap(o))>> >> ELSE <<>>

\* if let Some(x) = o { map.push((key, Value::Nat64(x))) }
push_nat64(key, o) ==
    IF is_some(o) THEN << <<key, Value_Nat64(unwrap(o))>> >> ELSE <<>>

\* A push that writes an empty blob for an absent field.
push_blob_mut(key, o) == << <<key, Value_Blob(unwrap_or(o, <<>>))>> >>

\* if let Some(x) = o { map.push((key, Value::Blob(x))) }
push_blob(key, o) ==
    IF is_some(o) THEN << <<key, Value_Blob(unwrap(o))>> >> ELSE <<>>

\* if let Some(x) = o { map.push((key, account_to_value(x))) }
push_account(key, o) ==
    IF is_some(o) THEN << <<key, account_to_value(unwrap(o))>> >> ELSE <<>>

\* A block encoding that leaves the spender out of a x.
transaction_to_value_mut(tx) ==
    Value_Map(
        << <<"ts", Value_Nat64(tx.timestamp)>> >>
        \o (IF tx.kind = "mint" /\ is_some(tx.mint)
            THEN LET x == unwrap(tx.mint) IN
                 << <<"op", Value_Text("mint")>>,
                    <<"to", account_to_value(x.to)>>,
                    <<"amt", Value_Nat(x.amount)>> >>
                 \o push_blob("memo", x.memo)
            ELSE IF tx.kind = "burn" /\ is_some(tx.burn)
            THEN LET x == unwrap(tx.burn) IN
                 << <<"op", Value_Text("burn")>>,
                    <<"from", account_to_value(x.from)>>,
                    <<"amt", Value_Nat(x.amount)>> >>
                 \o push_account("spender", x.spender)
                 \o push_blob("memo", x.memo)
            ELSE IF tx.kind = "transfer" /\ is_some(tx.transfer)
            THEN LET x == unwrap(tx.transfer) IN
                 << <<"op", Value_Text("xfer")>>,
                    <<"from", account_to_value(x.from)>>,
                    <<"to", account_to_value(x.to)>>,
                    <<"amt", Value_Nat(x.amount)>> >>
                 \o push_nat("fee", x.fee)
                 \o push_blob("memo", x.memo)
            ELSE IF tx.kind = "approve" /\ is_some(tx.approve)
            THEN LET x == unwrap(tx.approve) IN
                 << <<"op", Value_Text("approve")>>,
                    <<"from", account_to_value(x.from)>>,
                    <<"spender", account_to_value(x.spender)>>,
                    <<"amt", Value_Nat(x.amount)>> >>
                 \o push_nat("expected_allowance", x.expected_allowance)
                 \o push_nat64("expires_at", x.expires_at)
                 \o push_nat("fee", x.fee)
                 \o push_blob("memo", x.memo)
            ELSE <<>>))

\* transaction_to_value: the map of "ts" and the fields of the operation, in
\* the order they are pushed; an optional field is pushed when it is Some.
transaction_to_value(tx) ==
    Value_Map(
        << <<"ts", Value_Nat64(tx.timestamp)>> >>
        \o (IF tx.kind = "mint" /\ is_some(tx.mint)
            THEN LET x == unwrap(tx.mint) IN
                 << <<"op", Value_Text("mint")>>,
                    <<"to", account_to_value(x.to)>>,
                    <<"amt", Value_Nat(x.amount)>> >>
                 \o push_blob("memo", x.memo)
            ELSE IF tx.kind = "burn" /\ is_some(tx.burn)
            THEN LET x == unwrap(tx.burn) IN
                 << <<"op", Value_Text("burn")>>,
                    <<"from", account_to_value(x.from)>>,
                    <<"amt", Value_Nat(x.amount)>> >>
                 \o push_account("spender", x.spender)
                 \o push_blob("memo", x.memo)
            ELSE IF tx.kind = "transfer" /\ is_some(tx.transfer)
            THEN LET x == unwrap(tx.transfer) IN
                 << <<"op", Value_Text("xfer")>>,
                    <<"from", account_to_value(x.from)>>,
                    <<"to", account_to_value(x.to)>>,
                    <<"amt", Value_Nat(x.amount)>> >>
                 \o push_account("spender", x.spender)
                 \o push_nat("fee", x.fee)
                 \o push_blob("memo", x.memo)
            ELSE IF tx.kind = "approve" /\ is_some(tx.approve)
            THEN LET x == unwrap(tx.approve) IN
                 << <<"op", Value_Text("approve")>>,
                    <<"from", account_to_value(x.from)>>,
                    <<"spender", account_to_value(x.spender)>>,
                    <<"amt", Value_Nat(x.amount)>> >>
                 \o push_nat("expected_allowance", x.expected_allowance)
                 \o push_nat64("expires_at", x.expires_at)
                 \o push_nat("fee", x.fee)
                 \o push_blob("memo", x.memo)
            ELSE <<>>))

\* min of two u64
min(a, b) == IF a < b THEN a ELSE b

\* start + length on u64.  A sum beyond u64 panics where overflow checks are
\* compiled in and wraps where they are not: both builds are outcomes.
u64_add(a, b) ==
    IF a + b <= U64Max THEN {Some(a + b)}
    ELSE {None, Some((a + b) % (U64Max + 1))}

RECURSIVE blocks_in(_, _, _)
\* for i in from..upper: the block of every index that holds a transaction
blocks_in(txs, from, upper) ==
    IF from >= upper THEN <<>>
    ELSE (IF is_some(get(txs, from))
          THEN <<[id |-> from, block |-> transaction_to_value(txs[from])]>>
          ELSE <<>>)
         \o blocks_in(txs, from + 1, upper)

\* The GetBlocksResult over the log txs when start + length came out as sum.
GetBlocksResult(txs, start, sum) ==
    [log_length |-> len(txs),
     blocks |-> blocks_in(txs, start, min(sum, len(txs))),
     archived_blocks |-> <<>>]

\* The reply of a call that returns a plain value.
Returned(v) == [tag |-> "Returned", value |-> v]

icrc3_get_blocks(args) ==
    LET start == unwrap_or(to_u64(args.start), 0)
        length == unwrap_or(to_u64(args.length), 0)
    IN  /\ call' = [op |-> "icrc3_get_blocks", args |-> args]
        /\ \E sum \in u64_add(start, length) :
              result' = IF is_some(sum)
                        THEN Returned(GetBlocksResult(transactions, start,
                                                      unwrap(sum)))
                        ELSE Trap
        /\ UNCHANGED <<stores, now, upgrades>>

-----------------------------------------------------------------------------
(* The #[query] methods of ICRC-1 (lib.rs:94-137).                          *)

icrc1_name == token_data.name

icrc1_symbol == token_data.symbol

icrc1_decimals == token_data.decimals

icrc1_fee == token_data.fee

\* A metadata list without its fee entry.
icrc1_metadata_mut ==
    << <<"icrc1:name", Value_Text(icrc1_name)>>,
       <<"icrc1:symbol", Value_Text(icrc1_symbol)>>,
       <<"icrc1:decimals", Value_Nat(icrc1_decimals)>> >>

\* icrc1_metadata: the four entries, each built from its getter; the u8 of
\* decimals is widened to a Nat.
icrc1_metadata ==
    << <<"icrc1:name", Value_Text(icrc1_name)>>,
       <<"icrc1:symbol", Value_Text(icrc1_symbol)>>,
       <<"icrc1:decimals", Value_Nat(icrc1_decimals)>>,
       <<"icrc1:fee", Value_Nat(icrc1_fee)>> >>

icrc1_total_supply == token_data.total_supply

icrc1_minting_account == token_data.minting_account

icrc1_balance_of(account) == get_account_balance(account)

\* A query that leaves a trace of itself in the metadata.
query_mut(op, args, value) ==
    /\ call' = [op |-> op, args |-> args]
    /\ result' = Returned(value)
    /\ token_data' = [token_data EXCEPT !.next_block_index = @ + 1]
    /\ UNCHANGED <<balances, allowances, transactions, now, upgrades>>

\* A #[query] method executed: it answers with the value it computed on the
\* state it found and writes nothing.
query(op, args, value) ==
    /\ call' = [op |-> op, args |-> args]
    /\ result' = Returned(value)
    /\ UNCHANGED <<stores, now, upgrades>>

-----------------------------------------------------------------------------
(* The environment: the clock, message delivery, upgrades.                 *)

\* No message is being answered.
NoCall == [op |-> "none"]

idle == call = NoCall

\* The reply of the executed message leaves the canister (the code the
\* #[update] attribute generates around a handler); the next message is
\* executed after it.
Reply ==
    /\ ~ idle
    /\ call' = NoCall
    /\ result' = NoResult
    /\ UNCHANGED <<stores, now, upgrades>>

\* ic_cdk::api::time: the ledger clock, constant within a message, moving on
\* between messages.
Tick ==
    /\ idle
    /\ now < T0 + MaxTicks
    /\ now' = now + 1
    /\ UNCHANGED <<stores, upgrades, call, result>>

\* A canister upgrade: the three stable maps are re-attached to their
\* memories, the thread-local TOKEN_DATA is built anew from its initializer.
\* An upgrade that leaves the ledger without a minting account.
post_upgrade_mut ==
    /\ token_data' = [InitTokenData EXCEPT !.minting_account = None]
    /\ UNCHANGED <<balances, allowances, transactions>>

post_upgrade ==
    /\ token_data' = InitTokenData
    /\ UNCHANGED <<balances, allowances, transactions>>

Upgrade ==
    /\ idle
    /\ upgrades < MaxUpgrades
    /\ upgrades' = upgrades + 1
    /\ post_upgrade
    /\ call' = [op |-> "post_upgrade"]
    /\ result' = Ok(<<>>)
    /\ UNCHANGED now

-----------------------------------------------------------------------------
(* The calls explored.  A caller is given by the account it acts for: the   *)
(* owner is ic_cdk::caller(), the subaccount the one it passes.             *)

Principals == {Anonymous, Alice}

Accounts ==
    {Account(Anonymous, None), Account(Alice, None), Account(Alice, Some(1))}

\* A call that appends a block is explored while the log is below the bound.
appends == transactions' # transactions

TransferOver(bound, Froms, Tos, Amts, Fees, Memos, Createds) ==
    \E from \in Froms, to \in Tos, amount \in Amts, fee \in Fees,
       memo \in Memos, created \in Createds :
        /\ idle
        /\ icrc1_transfer(from.owner,
                          [from_subaccount |-> from.subaccount, to |-> to,
                           amount |-> amount, fee |-> fee, memo |-> memo,
                           created_at_time |-> created])
        /\ appends => len(transactions) < bound

ApproveOver(bound, Froms, Spenders, Amts, Expecteds, Expires, Fees, Memos, Createds) ==
    \E from \in Froms, spender \in Spenders, amount \in Amts,
       expected \in Expecteds, expires \in Expires, fee \in Fees,
       memo \in Memos, created \in Createds :
        /\ idle
        /\ icrc2_approve(from.owner,
                         [from_subaccount |-> from.subaccount,
                          spender |-> spender, amount |-> amount,
                          expected_allowance |-> expected,
                          expires_at |-> expires, fee |-> fee,
                          memo |-> memo, created_at_time |-> created])
        /\ appends => len(transactions) < bound

TransferFromOver(bound, Spenders, Froms, Tos, Amts, Fees, Memos, Createds) ==
    \E spender \in Spenders, from \in Froms, to \in Tos, amount \in Amts,
       fee \in Fees, memo \in Memos, created \in Createds :
        /\ idle
        /\ icrc2_transfer_from(spender.owner,
                               [spender_subaccount |-> spender.subaccount,
                                from |-> from, to |-> to, amount |-> amount,
                                fee |-> fee, memo |-> memo,
                                created_at_time |-> created])
        /\ appends => len(transactions) < bound

MintOver(bound, Callers, Tos, Amts) ==
    \E caller \in Callers, to \in Tos, amount \in Amts :
        /\ idle
        /\ token_data.total_supply + amount <= MaxSupplyUnits * FEE
        /\ mint(caller, to, amount)
        /\ appends => len(transactions) < bound

BurnOver(bound, Callers, Froms, Amts) ==
    \E caller \in Callers, from \in Froms, amount \in Amts :
        /\ idle
        /\ burn(caller, from, amount)
        /\ appends => len(transactions) < bound

UpdateMintingAccountOver(Callers, News) ==
    \E caller \in Callers, new_minting_account \in News :
        /\ idle
        /\ update_minting_account(caller, new_minting_account)

GetBlocksOver(Starts, Lengths) ==
    \E start \in Starts, length \in Lengths :
        /\ idle
        /\ icrc3_get_blocks([start |-> start, length |-> length])

-----------------------------------------------------------------------------
(* Spec: the ledger under well-formed calls, up to MaxBlocks blocks.        *)

Amounts == {0, FEE, 2 * FEE}

MintAmounts == {3 * FEE}

Spenders == {Account(Anonymous, None), Account(Alice, Some(1))}

Transfer ==
    TransferOver(MaxBlocks, Accounts, Accounts, {FEE, 2 * FEE}, {None}, {None},
                 {None})

Approve ==
    ApproveOver(MaxBlocks, Accounts, Spenders, Amounts, {None}, {None}, {None},
                {None}, {None})

TransferFrom ==
    TransferFromOver(MaxBlocks, Accounts, Accounts, Spenders, {0, FEE}, {None},
                     {None}, {None})

Mint == MintOver(MaxBlocks, Principals, Accounts, MintAmounts)

Burn == BurnOver(MaxBlocks, Principals, Accounts, {FEE})

UpdateMintingAccount ==
    UpdateMintingAccountOver(Principals, {Account(Alice, None)})

\* The whole log is asked for.
GetBlocks == GetBlocksOver({0}, {len(transactions)})

Next ==
    \/ Transfer
    \/ Approve
    \/ TransferFrom
    \/ Mint
    \/ Burn
    \/ UpdateMintingAccount
    \/ GetBlocks
    \/ Reply

Spec == Init /\ [][Next]_vars

-----------------------------------------------------------------------------
(* SpecUpgrade: the ledger with canister upgrades between messages.         *)

UpgradeTransfer ==
    TransferOver(MaxBlocks, {Account(Alice, None)},
                 {Account(Anonymous, None), Account(Alice, Some(1))}, {FEE},
                 {None}, {None}, {None})

UpgradeApprove ==
    ApproveOver(MaxBlocks, {Account(Alice, None)}, {Account(Anonymous, None)},
                {FEE}, {None}, {None}, {None}, {None}, {None})

UpgradeTransferFrom ==
    TransferFromOver(MaxBlocks, {Account(Anonymous, None)},
                     {Account(Alice, None)}, {Account(Alice, Some(1))}, {FEE},
                     {None}, {None}, {None})

UpgradeMint == MintOver(MaxBlocks, Principals, {Account(Alice, None)}, MintAmounts)

UpgradeBurn ==
    BurnOver(MaxBlocks, {Alice}, {Account(Alice, None)}, {FEE, 3 * FEE})

NextUpgrade ==
    \/ UpgradeTransfer
    \/ UpgradeApprove
    \/ UpgradeTransferFrom
    \/ UpgradeMint
    \/ UpgradeBurn
    \/ UpdateMintingAccount
    \/ Upgrade
    \/ Reply

SpecUpgrade == Init /\ [][NextUpgrade]_vars

-----------------------------------------------------------------------------
(* SpecChecks: calls that fail one or several validations, on a ledger of   *)
(* at most MaxCheckBlocks blocks, with the clock moving.                    *)

Payers == {Account(Anonymous, None), Account(Alice, None)}

Payees == {Account(Alice, None), Account(Alice, Some(1))}

CheckAmounts == {FEE, 3 * FEE}

FeeArgs == {None, Some(FEE), Some(FEE \div 2)}

CreatedArgs ==
    {None, Some(now), Some(now + 1), Some(now - TX_WINDOW),
     Some(now - TX_WINDOW - 1)}

ExpiresArgs == {None, Some(now - 1), Some(now)}

ExpectedArgs == {None, Some(0), Some(FEE)}

CheckTransfer ==
    TransferOver(MaxCheckBlocks, Payers, Payees, CheckAmounts, FeeArgs, {None},
                 CreatedArgs)

CheckApprove ==
    ApproveOver(MaxCheckBlocks, Payers, {Account(Alice, Some(1))}, {FEE},
                ExpectedArgs, ExpiresArgs, FeeArgs, {None}, CreatedArgs)

CheckTransferFrom ==
    TransferFromOver(MaxCheckBlocks, Payers, Payers, {Account(Alice, Some(1))},
                     CheckAmounts, FeeArgs, {None}, CreatedArgs)

CheckMint == MintOver(MaxCheckBlocks, Principals, {Account(Alice, None)}, MintAmounts)

CheckBurn == BurnOver(MaxCheckBlocks, Principals, Payers, CheckAmounts)

NextChecks ==
    \/ CheckTransfer
    \/ CheckApprove
    \/ CheckTransferFrom
    \/ CheckMint
    \/ CheckBurn
    \/ UpdateMintingAccount
    \/ Tick
    \/ Reply

SpecChecks == Init /\ [][NextChecks]_vars


-----------------------------------------------------------------------------
(* SpecAllowance: one owner, two spenders, allowances with and without an   *)
(* expiry, on a ledger of at most MaxAllowanceBlocks blocks, with the clock *)
(* moving.                                                                  *)

Owner == Account(Alice, None)

AllowanceAmounts == {FEE, 2 * FEE}

AllowanceExpires == {None, Some(now)}

AllowanceMint ==
    MintOver(MaxAllowanceBlocks, {Anonymous}, {Owner, Account(Alice, Some(1))},
             {2 * FEE, 4 * FEE})

AllowanceApprove ==
    ApproveOver(MaxAllowanceBlocks, {Owner}, Spenders, AllowanceAmounts,
                ExpectedArgs, AllowanceExpires, {None}, {None}, {None})

AllowanceTransferFrom ==
    TransferFromOver(MaxAllowanceBlocks, Spenders, {Owner},
                     {Account(Alice, Some(1))}, Amounts, {None}, {None}, {None})

NextAllowance ==
    \/ AllowanceMint
    \/ AllowanceApprove
    \/ AllowanceTransferFrom
    \/ Tick
    \/ Reply

SpecAllowance == Init /\ [][NextAllowance]_vars

-----------------------------------------------------------------------------
(* SpecSupply: mint and burn by every caller, with the minting account      *)
(* changing hands, on a ledger of at most MaxSupplyBlocks blocks.            *)

SupplyAccounts == {Account(Anonymous, None), Account(Alice, None)}

SupplyAmounts == {FEE, 2 * FEE}

SupplyMint == MintOver(MaxSupplyBlocks, Principals, SupplyAccounts, SupplyAmounts)

SupplyBurn == BurnOver(MaxSupplyBlocks, Principals, SupplyAccounts, SupplyAmounts)

SupplyUpdateMintingAccount ==
    UpdateMintingAccountOver(Principals,
                             {Account(Alice, None), Account(Anonymous, Some(1))})

NextSupply ==
    \/ SupplyMint
    \/ SupplyBurn
    \/ SupplyUpdateMintingAccount
    \/ Reply

SpecSupply == Init /\ [][NextSupply]_vars

-----------------------------------------------------------------------------
(* SpecBlocks: icrc3_get_blocks over every kind of range, among them a      *)
(* start and a length beyond u64 and a sum beyond u64, on a ledger of at    *)
(* most MaxRangeBlocks blocks.                                              *)

BlockStarts == {0, 1, 2, U64Max + 1}

BlockLengths == {0, 1, 2, U64Max, U64Max + 1}

BlocksMint ==
    MintOver(MaxRangeBlocks, {Anonymous}, {Account(Alice, None)}, {2 * FEE})

BlocksTransfer ==
    TransferOver(MaxRangeBlocks, {Account(Alice, None)},
                 {Account(Alice, Some(1))}, {0, FEE}, {None}, {None}, {None})

BlocksApprove ==
    ApproveOver(MaxRangeBlocks, {Account(Alice, None)},
                {Account(Anonymous, None)}, {FEE}, {None}, {None}, {None},
                {None}, {None})

BlocksGetBlocks == GetBlocksOver(BlockStarts, BlockLengths)

NextBlocks ==
    \/ BlocksMint
    \/ BlocksTransfer
    \/ BlocksApprove
    \/ BlocksGetBlocks
    \/ Reply

SpecBlocks == Init /\ [][NextBlocks]_vars

-----------------------------------------------------------------------------
(* SpecQueries: the #[query] methods, called one after another and between  *)
(* the updates and the upgrades of a ledger of at most MaxQueryBlocks       *)
(* blocks.                                                                  *)

ReadOps ==
    {"icrc1_name", "icrc1_symbol", "icrc1_decimals", "icrc1_fee",
     "icrc1_metadata", "icrc1_total_supply", "icrc1_minting_account",
     "icrc1_balance_of", "icrc2_allowance", "icrc3_get_blocks"}

\* A query is executed without waiting for the reply of the query before it
\* to leave; the observation then holds the later of the two.
ready == idle \/ call.op \in ReadOps

QueryName == ready /\ query("icrc1_name", <<>>, icrc1_name)

QuerySymbol == ready /\ query("icrc1_symbol", <<>>, icrc1_symbol)

QueryDecimals == ready /\ query("icrc1_decimals", <<>>, icrc1_decimals)

QueryFee == ready /\ query("icrc1_fee", <<>>, icrc1_fee)

QueryMetadata == ready /\ query("icrc1_metadata", <<>>, icrc1_metadata)

QueryTotalSupply ==
    ready /\ query("icrc1_total_supply", <<>>, icrc1_total_supply)

QueryMintingAccount ==
    ready /\ query("icrc1_minting_account", <<>>, icrc1_minting_account)

QueryBalanceOf ==
    \E account \in {Owner, Account(Alice, Some(1))} :
        /\ ready
        /\ query("icrc1_balance_of", [account |-> account],
                 icrc1_balance_of(account))

QueryAllowance ==
    \E spender \in Spenders :
        /\ ready
        /\ query("icrc2_allowance", [account |-> Owner, spender |-> spender],
                 icrc2_allowance(Owner, spender))

\* Ranges whose start or length may not fit in a u64; their u64 sum does.
QueryGetBlocks ==
    \E start \in {0, 1, U64Max + 1}, length \in {1, 2, U64Max + 1} :
        /\ ready
        /\ icrc3_get_blocks([start |-> start, length |-> length])

QueriesMint == MintOver(MaxQueryBlocks, {Anonymous}, {Owner}, {4 * FEE})

QueriesTransfer ==
    TransferOver(MaxQueryBlocks, {Owner}, {Account(Alice, Some(1))}, {FEE},
                 {None}, {None}, {None})

QueriesApprove ==
    ApproveOver(MaxQueryBlocks, {Owner}, {Account(Anonymous, None)}, {FEE},
                {None}, {None, Some(now)}, {None}, {None}, {None})

NextQueries ==
    \/ QueryName
    \/ QuerySymbol
    \/ QueryDecimals
    \/ QueryFee
    \/ QueryMetadata
    \/ QueryTotalSupply
    \/ QueryMintingAccount
    \/ QueryBalanceOf
    \/ QueryAllowance
    \/ QueryGetBlocks
    \/ QueriesMint
    \/ QueriesTransfer
    \/ QueriesApprove
    \/ UpdateMintingAccount
    \/ Upgrade
    \/ Reply

SpecQueries == Init /\ [][NextQueries]_vars

-----------------------------------------------------------------------------
(* SpecExport: records with and without memo, expected_allowance,           *)
(* expires_at, spender and subaccount, exported by icrc3_get_blocks, on a   *)
(* ledger of at most MaxExportBlocks blocks.                                *)

ExportMemos == {None, Some(<<7>>)}

ExportMint ==
    MintOver(MaxExportBlocks, {Anonymous}, {Account(Alice, None)}, {4 * FEE})

ExportTransfer ==
    TransferOver(MaxExportBlocks, {Account(Alice, None)},
                 {Account(Alice, Some(1))}, {FEE}, {None}, ExportMemos, {None})

ExportApprove ==
    ApproveOver(MaxExportBlocks, {Account(Alice, None)},
                {Account(Anonymous, None)}, {FEE}, {None, Some(0)},
                {None, Some(now)}, {None}, ExportMemos, {None})

ExportTransferFrom ==
    TransferFromOver(MaxExportBlocks, {Account(Anonymous, None)},
                     {Account(Alice, None)}, {Account(Alice, Some(1))},
                     {0, FEE}, {None}, ExportMemos, {None})

ExportBurn == BurnOver(MaxExportBlocks, {Alice}, {Account(Alice, None)}, {FEE})

ExportGetBlocks == GetBlocksOver({0, 1}, {len(transactions)})

NextExport ==
    \/ ExportMint
    \/ ExportTransfer
    \/ ExportApprove
    \/ ExportTransferFrom
    \/ ExportBurn
    \/ ExportGetBlocks
    \/ Reply

SpecExport == Init /\ [][NextExport]_vars

-----------------------------------------------------------------------------
(* Quantities the properties speak of.                                     *)

RECURSIVE SumOver(_, _)
\* The sum of f[x] over the finite set S.
SumOver(f, S) ==
    IF S = {} THEN 0
    ELSE LET x == CHOOSE y \in S : TRUE IN f[x] + SumOver(f, S \ {x})

SumBalances == SumOver(balances, DOMAIN balances)

\* What the record under index i says was minted, burned and charged as fee.
MintedBy(tx) == IF tx.kind = "mint" THEN unwrap(tx.mint).amount ELSE 0

BurnedBy(tx) == IF tx.kind = "burn" THEN unwrap(tx.burn).amount ELSE 0

FeeOf(tx) ==
    IF tx.kind = "transfer" THEN unwrap_or(unwrap(tx.transfer).fee, 0)
    ELSE IF tx.kind = "approve" THEN unwrap_or(unwrap(tx.approve).fee, 0)
    ELSE 0

LogSum(Of(_)) ==
    SumOver([i \in DOMAIN transactions |-> Of(transactions[i])],
            DOMAIN transactions)

\* The account a call debits, the amount it moves and the fee it pays.
PayerOf(c) ==
    IF c.op = "icrc2_transfer_from" THEN c.args.from
    ELSE Account(c.caller, c.args.from_subaccount)

SpenderOf(c) == Account(c.caller, c.args.spender_subaccount)

FeePaid(c) == unwrap_or(c.args.fee, token_data.fee)

returned_ok == result.tag = "Ok"

returned_err == result.tag = "Err"

-----------------------------------------------------------------------------
\* C1: in every state reached by mint, burn, icrc1_transfer, icrc2_approve,
\* icrc2_transfer_from and update_minting_account calls, the sum of all stored
\* balances plus the fees charged by the successful transfer, approve and
\* transfer_from calls (each recorded in its block) equals total_supply.
C1_BalancesPlusFeesIsSupply ==
    SumBalances + LogSum(FeeOf) = token_data.total_supply

\* Fees were charged by a transfer and by an approve, and two accounts hold
\* balances.
C1_Witness ==
    /\ \E i \in DOMAIN transactions : transactions[i].kind = "transfer"
    /\ \E i \in DOMAIN transactions : transactions[i].kind = "approve"
    /\ LogSum(FeeOf) = 2 * FEE
    /\ Cardinality(DOMAIN balances) >= 2

\* C2: in every reachable state total_supply equals the sum of the amounts of
\* the Mint records of the log minus the sum of the amounts of its Burn records.
C2_SupplyIsMintsMinusBurns ==
    token_data.total_supply = LogSum(MintedBy) - LogSum(BurnedBy)

\* The log holds a mint and a burn of a positive amount.
C2_Witness ==
    /\ \E i \in DOMAIN transactions : MintedBy(transactions[i]) > 0
    /\ \E i \in DOMAIN transactions : BurnedBy(transactions[i]) > 0


-----------------------------------------------------------------------------
UpdateOps ==
    {"icrc1_transfer", "icrc2_approve", "icrc2_transfer_from", "mint", "burn"}

\* C3: whenever icrc1_transfer, icrc2_approve, icrc2_transfer_from, mint or
\* burn returns an Err, all balances, all allowance entries, the transaction
\* log, total_supply, next_block_index and minting_account are as before.
C3_ErrLeavesStoresUnchanged ==
    [][ (call'.op \in UpdateOps /\ result'.tag = "Err")
        => /\ balances' = balances
           /\ allowances' = allowances
           /\ transactions' = transactions
           /\ token_data' = token_data ]_vars

\* A transfer_from was rejected for its allowance on a ledger that holds
\* balances, an allowance entry and two blocks.
C3_Witness ==
    /\ call.op = "icrc2_transfer_from"
    /\ returned_err
    /\ result.err.kind = "InsufficientAllowance"
    /\ balances # EmptyMap
    /\ allowances # EmptyMap
    /\ len(transactions) = 2

-----------------------------------------------------------------------------
(* The ledger replayed from its log.                                       *)

\* What the operation recorded as tx did to the balance of account x.
CreditTo(tx, x) ==
    IF tx.kind = "mint" /\ unwrap(tx.mint).to = x THEN unwrap(tx.mint).amount
    ELSE IF tx.kind = "transfer" /\ unwrap(tx.transfer).to = x
         THEN unwrap(tx.transfer).amount
    ELSE 0

\* The amount + fee a transfer or transfer_from recorded as tx took from x.
TransferDebit(tx, x) ==
    IF tx.kind = "transfer" /\ unwrap(tx.transfer).from = x
    THEN unwrap(tx.transfer).amount + unwrap_or(unwrap(tx.transfer).fee, 0)
    ELSE 0

DebitFrom(tx, x) ==
    IF tx.kind = "burn" /\ unwrap(tx.burn).from = x THEN unwrap(tx.burn).amount
    ELSE IF tx.kind = "approve" /\ unwrap(tx.approve).from = x
         THEN unwrap_or(unwrap(tx.approve).fee, 0)
    ELSE TransferDebit(tx, x)

RECURSIVE BalanceBefore(_, _)
\* The balance of x when the operations of blocks 0 .. i-1 have run one after
\* another on the empty ledger.
BalanceBefore(i, x) ==
    IF i = 0 THEN 0
    ELSE BalanceBefore(i - 1, x) + CreditTo(transactions[i - 1], x)
                                 - DebitFrom(transactions[i - 1], x)

\* C4: state-changing operations are serialized.  The balances are those of
\* running the logged operations whole, one after another; every transfer or
\* transfer_from was covered by the balance its payer held when it ran; and two
\* transfers debiting the same account, with nothing credited to that account
\* from the first on, never both succeed when their combined amount + fee
\* deductions exceed the balance the account held before the first.
C4_NoDoubleSpend ==
    /\ \A x \in Accounts :
          balance_in(balances, x) = BalanceBefore(len(transactions), x)
    /\ \A i \in DOMAIN transactions : \A x \in Accounts :
          TransferDebit(transactions[i], x) <= BalanceBefore(i, x)
    /\ \A i, j \in DOMAIN transactions : \A x \in Accounts :
          ( /\ i < j
            /\ TransferDebit(transactions[i], x) > 0
            /\ TransferDebit(transactions[j], x) > 0
            /\ \A k \in i .. (j - 1) : CreditTo(transactions[k], x) = 0 )
          => TransferDebit(transactions[i], x) + TransferDebit(transactions[j], x)
                <= BalanceBefore(i, x)

\* A second transfer from an account was rejected for funds right after a
\* first one succeeded: either alone was covered by the balance before the
\* first, the two together were not.
C4_Witness ==
    /\ call.op \in {"icrc1_transfer", "icrc2_transfer_from"}
    /\ returned_err
    /\ result.err.kind = "InsufficientFunds"
    /\ len(transactions) >= 2
    /\ LET n == len(transactions)
           x == PayerOf(call)
           d == call.args.amount + FeePaid(call)
       IN  /\ TransferDebit(transactions[n - 1], x) > 0
           /\ CreditTo(transactions[n - 1], x) = 0
           /\ d <= BalanceBefore(n - 1, x)
           /\ TransferDebit(transactions[n - 1], x) + d > BalanceBefore(n - 1, x)

-----------------------------------------------------------------------------
\* C5: without a restart, next_block_index equals the number of records in
\* the transaction log and the keys of the log are exactly 0 .. length-1.
C5_NextIndexIsLogLength ==
    /\ token_data.next_block_index = len(transactions)
    /\ DOMAIN transactions = 0 .. (len(transactions) - 1)

\* Three blocks have been appended.
C5_Witness ==
    /\ len(transactions) = 3
    /\ token_data.next_block_index = 3

\* C6 (as claimed): the token metadata survives an upgrade with the values it
\* had, so that the next successful operation is appended under an index that
\* holds no record yet.
C6_MetadataSurvivesUpgrade ==
    [][ /\ call'.op = "post_upgrade" => token_data' = token_data
        /\ (call'.op \in UpdateOps /\ result'.tag = "Ok")
              => result'.value \notin DOMAIN transactions ]_vars

\* C7 (as claimed): every entry of the allowance table has an amount > 0.
C7_NoZeroAllowanceEntry ==
    \A k \in DOMAIN allowances : allowances[k].allowance > 0

-----------------------------------------------------------------------------
\* C8: a successful icrc1_transfer of amount a with fee f from F to another
\* account T takes exactly a + f from F, adds exactly a to T, leaves every
\* other balance, every allowance entry, total_supply and minting_account
\* unchanged and appends exactly one Transfer record, without spender.
C8_TransferEffect ==
    [][ ( /\ call'.op = "icrc1_transfer"
          /\ result'.tag = "Ok"
          /\ call'.args.to # PayerOf(call') )
        => LET F == PayerOf(call')
               T == call'.args.to
               a == call'.args.amount
               f == FeePaid(call')
               new == (DOMAIN transactions') \ (DOMAIN transactions)
           IN  /\ balance_in(balances', F) = balance_in(balances, F) - (a + f)
               /\ balance_in(balances', T) = balance_in(balances, T) + a
               /\ \A x \in (Accounts \cup DOMAIN balances \cup DOMAIN balances')
                              \ {F, T} :
                     get(balances', x) = get(balances, x)
               /\ allowances' = allowances
               /\ token_data'.total_supply = token_data.total_supply
               /\ token_data'.minting_account = token_data.minting_account
               /\ Cardinality(new) = 1
               /\ \A i \in DOMAIN transactions :
                     transactions'[i] = transactions[i]
               /\ \A i \in new :
                     /\ transactions'[i].kind = "transfer"
                     /\ is_none(transactions'[i].mint)
                     /\ is_none(transactions'[i].burn)
                     /\ is_none(transactions'[i].approve)
                     /\ LET t == unwrap(transactions'[i].transfer)
                        IN  /\ t.from = F
                            /\ t.to = T
                            /\ t.amount = a
                            /\ t.fee = Some(f)
                            /\ is_none(t.spender) ]_vars

\* A transfer of a positive amount to another account succeeded while an
\* allowance entry and a third account's balance entry were stored.
C8_Witness ==
    /\ call.op = "icrc1_transfer"
    /\ returned_ok
    /\ call.args.to # PayerOf(call)
    /\ call.args.amount > 0
    /\ allowances # EmptyMap

-----------------------------------------------------------------------------
(* The checks of the validation pipeline, as the call c meets them in the   *)
(* current state.                                                          *)

InFuture(c) ==
    is_some(c.args.created_at_time) /\ unwrap(c.args.created_at_time) > now

IsTooOld(c) ==
    is_some(c.args.created_at_time)
    /\ unwrap(c.args.created_at_time) + TX_WINDOW < now

WrongFee(c) == is_some(c.args.fee) /\ unwrap(c.args.fee) # token_data.fee

LacksFunds(c) ==
    balance_in(balances, PayerOf(c))
        < (IF c.op = "icrc2_approve" THEN 0 ELSE c.args.amount) + FeePaid(c)

\* The stored allowance has expired or is less than the amount; a pair without
\* an entry has allowance 0 and no expiry.
LacksAllowance(c) ==
    LET k == <<c.args.from, SpenderOf(c)>>
        stored == k \in DOMAIN allowances
    IN  \/ (IF stored THEN allowances[k].allowance ELSE 0) < c.args.amount
        \/ /\ stored
           /\ is_some(allowances[k].expires_at)
           /\ unwrap(allowances[k].expires_at) < now

AllowanceDiffers(c) ==
    LET k == <<PayerOf(c), c.args.spender>>
        current == IF k \in DOMAIN allowances THEN allowances[k].allowance ELSE 0
    IN  is_some(c.args.expected_allowance)
        /\ unwrap(c.args.expected_allowance) # current

ExpiryPassed(c) ==
    is_some(c.args.expires_at) /\ unwrap(c.args.expires_at) < now

RECURSIVE FirstViolated(_)
\* The error kind of the first violated check of a list of <<violated, kind>>.
FirstViolated(checks) ==
    IF checks = <<>> THEN "none"
    ELSE IF Head(checks)[1] THEN Head(checks)[2]
    ELSE FirstViolated(Tail(checks))

TransferChecks(c) ==
    << <<InFuture(c), "CreatedInFuture">>, <<IsTooOld(c), "TooOld">>,
       <<WrongFee(c), "BadFee">>, <<LacksFunds(c), "InsufficientFunds">> >>

TransferFromChecks(c) ==
    TransferChecks(c)
        \o << <<LacksAllowance(c), "InsufficientAllowance">> >>

ApproveChecks(c) ==
    << <<InFuture(c), "CreatedInFuture">>, <<IsTooOld(c), "TooOld">>,
       <<WrongFee(c), "BadFee">>, <<LacksFunds(c), "InsufficientFunds">>,
       <<AllowanceDiffers(c), "AllowanceChanged">>,
       <<ExpiryPassed(c), "Expired">> >>

Violations(checks) == {i \in DOMAIN checks : checks[i][1]}

\* The result is the error of the first violated check, Ok if none is violated.
ReturnsFirstOf(checks, res) ==
    LET kind == FirstViolated(checks)
    IN  IF kind = "none" THEN res.tag = "Ok"
        ELSE res.tag = "Err" /\ res.err.kind = kind

\* C9: icrc1_transfer and icrc2_transfer_from check freshness (CreatedInFuture,
\* then TooOld), then the fee (BadFee), then the funds (InsufficientFunds), and
\* transfer_from last the allowance (InsufficientAllowance): a call that
\* violates several checks returns the error of the earliest one.
C9_TransferCheckOrder ==
    [][ /\ call'.op = "icrc1_transfer"
           => ReturnsFirstOf(TransferChecks(call'), result')
        /\ call'.op = "icrc2_transfer_from"
           => ReturnsFirstOf(TransferFromChecks(call'), result') ]_vars

\* A transfer_from that was too old, carried a wrong fee, lacked funds and
\* lacked allowance returned TooOld.
C9_Witness ==
    /\ call.op = "icrc2_transfer_from"
    /\ Violations(TransferFromChecks(call)) = {2, 3, 4, 5}
    /\ returned_err
    /\ result.err.kind = "TooOld"
    /\ balances # EmptyMap

\* C10: icrc2_approve checks freshness (CreatedInFuture, then TooOld), the fee
\* (BadFee), the funds (InsufficientFunds), the expected allowance
\* (AllowanceChanged) and the expiry (Expired) in this order: a call that
\* violates several checks returns the error of the earliest one.
C10_ApproveCheckOrder ==
    [][ call'.op = "icrc2_approve"
        => ReturnsFirstOf(ApproveChecks(call'), result') ]_vars

\* An approve with a mismatching expected_allowance and an expires_at in the
\* past, and nothing else wrong, returned AllowanceChanged.
C10_Witness ==
    /\ call.op = "icrc2_approve"
    /\ Violations(ApproveChecks(call)) = {5, 6}
    /\ returned_err
    /\ result.err.kind = "AllowanceChanged"

-----------------------------------------------------------------------------
FeeOps == {"icrc1_transfer", "icrc2_approve", "icrc2_transfer_from"}

RejectedAs(res, kind) == res.tag = "Err" /\ res.err.kind = kind

PassesFreshness(res) ==
    ~ RejectedAs(res, "CreatedInFuture") /\ ~ RejectedAs(res, "TooOld")

\* C11: for icrc1_transfer, icrc2_approve and icrc2_transfer_from with a
\* created_at_time c, the freshness check passes exactly when
\* now - TX_WINDOW <= c <= now; c > now is rejected with CreatedInFuture,
\* c < now - TX_WINDOW with TooOld; a call without created_at_time is never
\* rejected by this check.
C11_FreshnessWindow ==
    [][ call'.op \in FeeOps
        => LET c == call'.args.created_at_time
           IN  /\ is_none(c) => PassesFreshness(result')
               /\ is_some(c) =>
                    /\ PassesFreshness(result')
                         <=> (now - TX_WINDOW <= unwrap(c) /\ unwrap(c) <= now)
                    /\ unwrap(c) > now
                         => result' = Err(CreatedInFuture(now))
                    /\ unwrap(c) < now - TX_WINDOW => result' = Err(TooOld) ]_vars

\* After the clock has moved, a transfer created exactly TX_WINDOW ago was
\* accepted.
C11_Witness ==
    /\ call.op = "icrc1_transfer"
    /\ call.args.created_at_time = Some(now - TX_WINDOW)
    /\ now > T0
    /\ returned_ok

\* C12: for transfer, approve and transfer_from that pass the freshness check,
\* a supplied fee different from the configured fee is rejected with BadFee
\* carrying the configured fee and no balance changes; a call that omits the
\* fee is never rejected with BadFee.
C12_BadFee ==
    [][ (call'.op \in FeeOps /\ PassesFreshness(result'))
        => LET fee == call'.args.fee
           IN  /\ (is_some(fee) /\ unwrap(fee) # token_data.fee)
                    => /\ result' = Err(BadFee(token_data.fee))
                       /\ balances' = balances
               /\ is_none(fee) => ~ RejectedAs(result', "BadFee") ]_vars

\* A transfer with fee 5,000 under the configured fee 10,000 was rejected
\* with BadFee{expected_fee: 10,000} on a ledger that holds a balance.
C12_Witness ==
    /\ call.op = "icrc1_transfer"
    /\ call.args.fee = Some(FEE \div 2)
    /\ token_data.fee = FEE
    /\ result = Err(BadFee(FEE))
    /\ balances # EmptyMap

-----------------------------------------------------------------------------
(* What a step did to the stores, for the properties about one operation.   *)

NewBlocks == (DOMAIN transactions') \ (DOMAIN transactions)

\* Exactly one record is appended and the records of the log stay as they are.
AppendsOne ==
    /\ Cardinality(NewBlocks) = 1
    /\ \A i \in DOMAIN transactions :
          i \in DOMAIN transactions' /\ transactions'[i] = transactions[i]

\* Every balance entry but those of the accounts in S is as before.
BalancesUnchangedBut(S) ==
    \A x \in (Accounts \cup DOMAIN balances \cup DOMAIN balances') \ S :
        get(balances', x) = get(balances, x)

\* Every allowance entry but that of the pair k is as before.
AllowancesUnchangedBut(k) ==
    \A j \in (DOMAIN allowances \cup DOMAIN allowances') \ {k} :
        get(allowances', j) = get(allowances, j)

\* What icrc2_allowance answers for the pair on the allowance table alls.
allowance_in(alls, account, spender) ==
    unwrap_or(get(alls, <<account, spender>>),
              [allowance |-> 0, expires_at |-> None])

\* The call c meets none of the freshness, fee and funds checks.
PassesEarlierChecks(c) ==
    ~ InFuture(c) /\ ~ IsTooOld(c) /\ ~ WrongFee(c) /\ ~ LacksFunds(c)

\* C13: a successful icrc2_transfer_from of amount a by spender S from F
\* decrements the (F, S) allowance by exactly a (not by the fee), keeps the
\* entry's expires_at when the remainder is positive and removes the entry
\* exactly when the remainder is 0, after which icrc2_allowance(F, S) is
\* {0, no expiry}.
C13_TransferFromSpendsAllowance ==
    [][ (call'.op = "icrc2_transfer_from" /\ result'.tag = "Ok")
        => LET F == call'.args.from
               S == SpenderOf(call')
               old == icrc2_allowance(F, S)
               remainder == old.allowance - call'.args.amount
           IN  /\ remainder >= 0
               /\ allowance_in(allowances', F, S).allowance = remainder
               /\ remainder > 0
                    => /\ <<F, S>> \in DOMAIN allowances'
                       /\ allowances'[<<F, S>>].expires_at = old.expires_at
               /\ <<F, S>> \notin DOMAIN allowances' <=> remainder = 0
               /\ remainder = 0
                    => allowance_in(allowances', F, S)
                         = [allowance |-> 0, expires_at |-> None]
               /\ AllowancesUnchangedBut(<<F, S>>) ]_vars

\* A transfer_from of a positive amount used up an approved allowance: the
\* approve is in the log and the entry is gone.
C13_Witness ==
    /\ call.op = "icrc2_transfer_from"
    /\ returned_ok
    /\ call.args.amount > 0
    /\ <<call.args.from, SpenderOf(call)>> \notin DOMAIN allowances
    /\ \E i \in DOMAIN transactions :
          /\ transactions[i].kind = "approve"
          /\ unwrap(transactions[i].approve).from = call.args.from
          /\ unwrap(transactions[i].approve).spender = SpenderOf(call)
          /\ unwrap(transactions[i].approve).amount = call.args.amount
          /\ is_some(unwrap(transactions[i].approve).expires_at)

\* C14: an icrc2_transfer_from that passes the freshness, fee and funds checks
\* is rejected with InsufficientAllowance exactly when the (from, spender)
\* allowance has an expires_at strictly earlier than the ledger time or an
\* amount less than the requested one; a rejection for expiry leaves the
\* expired entry stored; an allowance whose expires_at equals the ledger time
\* is still usable.
C14_AllowanceCheck ==
    [][ (call'.op = "icrc2_transfer_from" /\ PassesEarlierChecks(call'))
        => LET k == <<call'.args.from, SpenderOf(call')>>
               old == icrc2_allowance(k[1], k[2])
               expired == is_some(old.expires_at) /\ unwrap(old.expires_at) < now
               short == old.allowance < call'.args.amount
           IN  /\ RejectedAs(result', "InsufficientAllowance")
                    <=> (expired \/ short)
               /\ (expired /\ k \in DOMAIN allowances)
                    => k \in DOMAIN allowances' /\ allowances'[k] = allowances[k]
               /\ (old.expires_at = Some(now) /\ ~ short)
                    => result'.tag = "Ok" ]_vars

\* A transfer_from within the approved amount was rejected because the
\* allowance expired one tick ago, and the entry is still stored.
C14_Witness ==
    /\ call.op = "icrc2_transfer_from"
    /\ result = Err(InsufficientAllowance(0))
    /\ LET k == <<call.args.from, SpenderOf(call)>>
       IN  /\ k \in DOMAIN allowances
           /\ allowances[k].expires_at = Some(now - 1)
           /\ allowances[k].allowance >= call.args.amount
           /\ call.args.amount > 0

\* C15: when icrc2_approve supplies expected_allowance e and reaches the
\* compare, a stored allowance amount for (from, spender) (0 without an entry)
\* that differs from e gives AllowanceChanged carrying the stored amount and
\* leaves the allowance entry unchanged; when e equals the stored amount the
\* check passes.
C15_ExpectedAllowance ==
    [][ ( /\ call'.op = "icrc2_approve"
          /\ is_some(call'.args.expected_allowance)
          /\ PassesEarlierChecks(call') )
        => LET k == <<PayerOf(call'), call'.args.spender>>
               stored == icrc2_allowance(k[1], k[2]).allowance
           IN  IF stored # unwrap(call'.args.expected_allowance)
               THEN /\ result' = Err(AllowanceChanged(stored))
                    /\ allowances' = allowances
               ELSE ~ RejectedAs(result', "AllowanceChanged") ]_vars

\* An approve expecting another amount than the positive one stored was
\* rejected with AllowanceChanged carrying the stored amount.
C15_Witness ==
    /\ call.op = "icrc2_approve"
    /\ is_some(call.args.expected_allowance)
    /\ LET k == <<PayerOf(call), call.args.spender>>
       IN  /\ k \in DOMAIN allowances
           /\ allowances[k].allowance > 0
           /\ allowances[k].allowance # unwrap(call.args.expected_allowance)
           /\ result = Err(AllowanceChanged(allowances[k].allowance))

\* C16: a successful icrc2_approve(spender, amount, expires_at) by F replaces
\* the (F, spender) allowance with exactly {amount, expires_at}, debits exactly
\* the fee from F, leaves every other balance, every other allowance entry and
\* total_supply unchanged, and appends exactly one Approve record.
C16_ApproveEffect ==
    [][ (call'.op = "icrc2_approve" /\ result'.tag = "Ok")
        => LET F == PayerOf(call')
               k == <<F, call'.args.spender>>
           IN  /\ k \in DOMAIN allowances'
               /\ allowances'[k] = [allowance |-> call'.args.amount,
                                    expires_at |-> call'.args.expires_at]
               /\ AllowancesUnchangedBut(k)
               /\ balance_in(balances', F)
                    = balance_in(balances, F) - FeePaid(call')
               /\ BalancesUnchangedBut({F})
               /\ token_data'.total_supply = token_data.total_supply
               /\ AppendsOne
               /\ \A i \in NewBlocks :
                     /\ transactions'[i].kind = "approve"
                     /\ is_none(transactions'[i].mint)
                     /\ is_none(transactions'[i].burn)
                     /\ is_none(transactions'[i].transfer)
                     /\ LET a == unwrap(transactions'[i].approve)
                        IN  /\ a.from = F
                            /\ a.spender = call'.args.spender
                            /\ a.amount = call'.args.amount
                            /\ a.expires_at = call'.args.expires_at ]_vars

\* A second approve for a pair succeeded: the entry holds the new amount and
\* expiry, not the sum with the amount approved before.
C16_Witness ==
    /\ call.op = "icrc2_approve"
    /\ returned_ok
    /\ len(transactions) = 3
    /\ transactions[1].kind = "approve"
    /\ LET first == unwrap(transactions[1].approve)
           k == <<PayerOf(call), call.args.spender>>
       IN  /\ first.from = k[1]
           /\ first.spender = k[2]
           /\ first.amount > 0
           /\ is_some(first.expires_at)
           /\ allowances[k] = [allowance |-> call.args.amount,
                               expires_at |-> None]

-----------------------------------------------------------------------------
\* C17: mint(to, amount) succeeds only when the caller is the owner of the
\* current minting_account; any other caller gets GenericError and no state
\* change.  A successful mint increases to's balance and total_supply by
\* exactly amount, charges no fee, changes no other balance and appends
\* exactly one Mint record.
C17_Mint ==
    [][ call'.op = "mint"
        => LET to == call'.args.to
               amount == call'.args.amount
               is_minter == /\ is_some(token_data.minting_account)
                            /\ unwrap(token_data.minting_account).owner
                                 = call'.caller
           IN  /\ ~ is_minter
                    => /\ RejectedAs(result', "GenericError")
                       /\ stores' = stores
               /\ result'.tag = "Ok"
                    => /\ is_minter
                       /\ balance_in(balances', to)
                            = balance_in(balances, to) + amount
                       /\ token_data'.total_supply
                            = token_data.total_supply + amount
                       /\ BalancesUnchangedBut({to})
                       /\ allowances' = allowances
                       /\ AppendsOne
                       /\ \A i \in NewBlocks :
                             /\ transactions'[i].kind = "mint"
                             /\ is_none(transactions'[i].burn)
                             /\ is_none(transactions'[i].transfer)
                             /\ is_none(transactions'[i].approve)
                             /\ unwrap(transactions'[i].mint).to = to
                             /\ unwrap(transactions'[i].mint).amount = amount
      ]_vars

\* After the minting account changed hands, its new owner minted onto a
\* balance that another mint had created, next to a second balance.
C17_Witness ==
    /\ call.op = "mint"
    /\ returned_ok
    /\ call.caller = Alice
    /\ balance_in(balances, call.args.to) > call.args.amount
    /\ Cardinality(DOMAIN balances) = 2

\* C18: burn(from, amount) is rejected with GenericError when the caller is
\* not from.owner, before the funds are looked at, and with InsufficientFunds
\* carrying from's balance when the balance is less than amount; a successful
\* burn decreases from's balance and total_supply by exactly amount, charges no
\* fee, changes no other balance and appends exactly one Burn record.
C18_Burn ==
    [][ call'.op = "burn"
        => LET from == call'.args.from
               amount == call'.args.amount
               is_owner == from.owner = call'.caller
               balance == balance_in(balances, from)
           IN  /\ ~ is_owner => RejectedAs(result', "GenericError")
               /\ (is_owner /\ balance < amount)
                    => result' = Err(InsufficientFunds(balance))
               /\ result'.tag = "Ok"
                    => /\ is_owner
                       /\ balance >= amount
                       /\ balance_in(balances', from) = balance - amount
                       /\ token_data'.total_supply
                            = token_data.total_supply - amount
                       /\ BalancesUnchangedBut({from})
                       /\ allowances' = allowances
                       /\ AppendsOne
                       /\ \A i \in NewBlocks :
                             /\ transactions'[i].kind = "burn"
                             /\ is_none(transactions'[i].mint)
                             /\ is_none(transactions'[i].transfer)
                             /\ is_none(transactions'[i].approve)
                             /\ unwrap(transactions'[i].burn).from = from
                             /\ unwrap(transactions'[i].burn).amount = amount
      ]_vars

\* A burn by a caller who does not own the account, for more than the
\* account's positive balance, was rejected with GenericError.
C18_Witness ==
    /\ call.op = "burn"
    /\ call.args.from.owner # call.caller
    /\ balance_in(balances, call.args.from) > 0
    /\ balance_in(balances, call.args.from) < call.args.amount
    /\ returned_err
    /\ result.err.kind = "GenericError"

-----------------------------------------------------------------------------
(* Reading a block.                                                        *)

\* What icrc3_get_blocks(0, log_length) answers with on the log txs.
AllBlocks(txs) == GetBlocksResult(txs, 0, len(txs)).blocks

\* The value a block's map holds under key, None if it has no such key.
Field(block, key) ==
    LET at == {i \in DOMAIN block.Map : block.Map[i][1] = key}
    IN  IF at = {} THEN None
        ELSE Some(block.Map[CHOOSE i \in at : \A j \in at : i <= j][2])

\* The "op" text of the block of a call.
OpText(c) ==
    IF c.op = "mint" THEN "mint"
    ELSE IF c.op = "burn" THEN "burn"
    ELSE IF c.op = "icrc2_approve" THEN "approve"
    ELSE "xfer"

\* The block describes the operation the call c performed at time t.
Describes(block, c, t) ==
    /\ Field(block, "ts") = Some(Value_Nat64(t))
    /\ Field(block, "op") = Some(Value_Text(OpText(c)))
    /\ Field(block, "amt") = Some(Value_Nat(c.args.amount))
    /\ c.op = "mint"
         => /\ Field(block, "to") = Some(account_to_value(c.args.to))
            /\ Field(block, "from") = None
    /\ c.op = "burn"
         => /\ Field(block, "from") = Some(account_to_value(c.args.from))
            /\ Field(block, "to") = None
    /\ c.op \in FeeOps
         => /\ Field(block, "from") = Some(account_to_value(PayerOf(c)))
            /\ Field(block, "fee") = Some(Value_Nat(FeePaid(c)))
    /\ c.op = "icrc1_transfer"
         => /\ Field(block, "to") = Some(account_to_value(c.args.to))
            /\ Field(block, "spender") = None
    /\ c.op = "icrc2_transfer_from"
         => /\ Field(block, "to") = Some(account_to_value(c.args.to))
            /\ Field(block, "spender") = Some(account_to_value(SpenderOf(c)))
    /\ c.op = "icrc2_approve"
         => /\ Field(block, "spender") = Some(account_to_value(c.args.spender))
            /\ Field(block, "to") = None

\* C20: icrc3_get_blocks(0, log_length) answers with no block at the start;
\* every successful transfer, approve, transfer_from, mint or burn adds to its
\* answer exactly one block, after the others, with the next id, describing
\* that operation; every other step, a failed operation included, leaves the
\* answer as it is.  So after N successful operations it returns
\* log_length = N and the N blocks 0..N-1 in the order of the operations.
C20_GetBlocksIsHistory ==
    /\ AllBlocks(transactions) = <<>>
    /\ [][ /\ IF call'.op \in UpdateOps /\ result'.tag = "Ok"
              THEN LET old == AllBlocks(transactions)
                       new == AllBlocks(transactions')
                   IN  /\ Len(new) = Len(old) + 1
                       /\ SubSeq(new, 1, Len(old)) = old
                       /\ new[Len(new)].id = Len(old)
                       /\ result'.value = Len(old)
                       /\ Describes(new[Len(new)].block, call', now)
              ELSE AllBlocks(transactions') = AllBlocks(transactions)
           /\ ( /\ call'.op = "icrc3_get_blocks"
                /\ call'.args = [start |-> 0, length |-> len(transactions)] )
              => /\ result' = Returned(
                                [log_length |-> len(transactions),
                                 blocks |-> AllBlocks(transactions),
                                 archived_blocks |-> <<>>])
                 /\ Len(result'.value.blocks) = result'.value.log_length
                 /\ \A i \in DOMAIN result'.value.blocks :
                       result'.value.blocks[i].id = i - 1 ]_vars

\* icrc3_get_blocks(0, 3) returned three blocks 0, 1, 2: a mint, then an
\* approve, then a transfer by the approved spender.
C20_Witness ==
    /\ call.op = "icrc3_get_blocks"
    /\ call.args = [start |-> 0, length |-> 3]
    /\ result.tag = "Returned"
    /\ result.value.log_length = 3
    /\ Len(result.value.blocks) = 3
    /\ \A i \in 1 .. 3 : result.value.blocks[i].id = i - 1
    /\ Field(result.value.blocks[1].block, "op") = Some(Value_Text("mint"))
    /\ Field(result.value.blocks[2].block, "op") = Some(Value_Text("approve"))
    /\ Field(result.value.blocks[3].block, "op") = Some(Value_Text("xfer"))
    /\ Field(result.value.blocks[3].block, "spender") # None

-----------------------------------------------------------------------------
(* Ranges of the log.                                                      *)

\* The records of txs with indices in [start, min(start + length, log_length)),
\* in ascending order, each with its index as id.
RangeOf(txs, start, length) ==
    LET upper == min(start + length, len(txs))
    IN  [k \in 1 .. (upper - start) |->
            [id |-> start + k - 1,
             block |-> transaction_to_value(txs[start + k - 1])]]

\* C21: icrc3_get_blocks(start, length) returns, in ascending id order,
\* exactly the records with indices in [start, min(start + length,
\* log_length)), log_length equal to the size of the log, and no archived
\* blocks; a start at or beyond log_length yields an empty block list and not
\* an error.
C21_GetBlocksRange ==
    [][ call'.op = "icrc3_get_blocks"
          => result' = Returned(
                         [log_length |-> len(transactions),
                          blocks |-> RangeOf(transactions, call'.args.start,
                                             call'.args.length),
                          archived_blocks |-> <<>>]) ]_vars

-----------------------------------------------------------------------------
\* C22: without a restart the log is append-only: a step of any kind keeps
\* every record of the log under its index with the content it had, and a
\* successful transfer, approve, transfer_from, mint or burn is assigned an
\* index that holds no record.
C22_LogIsAppendOnly ==
    [][ /\ \A i \in DOMAIN transactions :
              /\ i \in DOMAIN transactions'
              /\ transactions'[i] = transactions[i]
        /\ (call'.op \in UpdateOps /\ result'.tag = "Ok")
              => result'.value \notin DOMAIN transactions ]_vars

\* A burn was appended at index 2 after a mint at 0 and an approve at 1,
\* which are still there.
C22_Witness ==
    /\ call.op = "burn"
    /\ result = Ok(2)
    /\ DOMAIN transactions = {0, 1, 2}
    /\ transactions[0].kind = "mint"
    /\ transactions[1].kind = "approve"
    /\ transactions[2].kind = "burn"

\* C23: the log is empty at the start, and every successful transfer,
\* approve, transfer_from, mint or burn appends exactly one record, under the
\* index it returns, which is the length of the log before the call; so the
\* indices returned by successive successful operations are 0, 1, 2, ...
C23_ReturnsLengthBefore ==
    /\ len(transactions) = 0
    /\ [][ (call'.op \in UpdateOps /\ result'.tag = "Ok")
              => /\ result'.value = len(transactions)
                 /\ NewBlocks = {result'.value}
                 /\ len(transactions') = len(transactions) + 1 ]_vars

\* The third successful operation, a transfer_from, returned index 2.
C23_Witness ==
    /\ call.op = "icrc2_transfer_from"
    /\ result = Ok(2)
    /\ len(transactions) = 3
    /\ \E i \in DOMAIN transactions : transactions[i].kind = "approve"

-----------------------------------------------------------------------------
\* C24: a read operation (icrc1_balance_of, icrc2_allowance, icrc3_get_blocks,
\* icrc1_total_supply, icrc1_minting_account, icrc1_metadata, icrc1_name,
\* icrc1_symbol, icrc1_decimals, icrc1_fee) modifies no store; called again
\* with the same arguments right after itself it returns the same result;
\* icrc1_balance_of returns 0 for an account with no entry and
\* icrc2_allowance returns {0, no expiry} for a pair with no entry.
C24_ReadsAreIdempotent ==
    [][ call'.op \in ReadOps
          => /\ stores' = stores
             /\ call' = call => result' = result
             /\ ( /\ call'.op = "icrc1_balance_of"
                  /\ call'.args.account \notin DOMAIN balances )
                  => result' = Returned(0)
             /\ ( /\ call'.op = "icrc2_allowance"
                  /\ <<call'.args.account, call'.args.spender>>
                        \notin DOMAIN allowances )
                  => result' = Returned([allowance |-> 0,
                                         expires_at |-> None]) ]_vars

\* icrc2_allowance answered {0, no expiry} for a pair without entry while
\* another pair has one and two accounts hold a balance.
C24_Witness ==
    /\ call.op = "icrc2_allowance"
    /\ <<call.args.account, call.args.spender>> \notin DOMAIN allowances
    /\ result = Returned([allowance |-> 0, expires_at |-> None])
    /\ allowances # EmptyMap
    /\ len(balances) = 2

-----------------------------------------------------------------------------
\* The keys of a list of (key, value) entries, in their order.
KeysOf(entries) == [i \in DOMAIN entries |-> entries[i][1]]

\* The value the list holds under key.
ValueOf(entries, key) ==
    entries[CHOOSE i \in DOMAIN entries : entries[i][1] = key][2]

\* C25: decimals is 8 and the fee is 10,000 in every reachable state; no step
\* changes name, symbol, decimals or fee; icrc1_metadata returns exactly the
\* four entries icrc1:name, icrc1:symbol, icrc1:decimals and icrc1:fee, whose
\* values are what icrc1_name, icrc1_symbol, icrc1_decimals and icrc1_fee
\* return.
C25_StaticConfiguration ==
    /\ token_data.decimals = 8
    /\ token_data.fee = 10000
    /\ [][ /\ token_data'.name = token_data.name
            /\ token_data'.symbol = token_data.symbol
            /\ token_data'.decimals = token_data.decimals
            /\ token_data'.fee = token_data.fee
            /\ call'.op = "icrc1_metadata"
                  => /\ result'.tag = "Returned"
                     /\ KeysOf(result'.value)
                           = <<"icrc1:name", "icrc1:symbol", "icrc1:decimals",
                               "icrc1:fee">>
                     /\ ValueOf(result'.value, "icrc1:name")
                           = Value_Text(icrc1_name)
                     /\ ValueOf(result'.value, "icrc1:symbol")
                           = Value_Text(icrc1_symbol)
                     /\ ValueOf(result'.value, "icrc1:decimals")
                           = Value_Nat(icrc1_decimals)
                     /\ ValueOf(result'.value, "icrc1:fee")
                           = Value_Nat(icrc1_fee) ]_vars

\* icrc1_metadata answered, with decimals 8 and fee 10,000, on a ledger that
\* has appended blocks, changed its minting account and been upgraded.
C25_Witness ==
    /\ call.op = "icrc1_metadata"
    /\ result.tag = "Returned"
    /\ Len(result.value) = 4
    /\ ValueOf(result.value, "icrc1:decimals") = Value_Nat(8)
    /\ ValueOf(result.value, "icrc1:fee") = Value_Nat(10000)
    /\ len(transactions) = 3
    /\ upgrades = 1

-----------------------------------------------------------------------------
\* C26 (as claimed): in every state icrc1_name() returns "ICRC-3 Token" and
\* icrc1_symbol() returns "ICRC3".
C26_NameAndSymbol ==
    /\ icrc1_name = "ICRC-3 Token"
    /\ icrc1_symbol = "ICRC3"

-----------------------------------------------------------------------------
\* C27 (as claimed): the balance of an account decreases only in an operation
\* called by the owner of the account, or in an icrc2_transfer_from whose
\* spender has, when it is called, a stored allowance entry from that
\* account; a caller the owner never approved cannot reduce the balance.
C27_OnlyOwnerOrApprovedDebits ==
    [][ \A x \in DOMAIN balances :
          balance_in(balances', x) < balances[x]
            => \/ /\ call'.op \in UpdateOps
                  /\ call'.caller = x.owner
               \/ /\ call'.op = "icrc2_transfer_from"
                  /\ <<x, SpenderOf(call')>> \in DOMAIN allowances ]_vars

-----------------------------------------------------------------------------
\* C28 (as claimed): a successful icrc2_transfer_from by a spender that holds
\* an allowance entry from the from account lowers the balance of that
\* account by no more than the amount of the entry immediately before the
\* call.
C28_DebitWithinAllowance ==
    [][ ( /\ call'.op = "icrc2_transfer_from"
          /\ result'.tag = "Ok"
          /\ <<call'.args.from, SpenderOf(call')>> \in DOMAIN allowances )
          => balance_in(balances, call'.args.from)
               - balance_in(balances', call'.args.from)
             <= allowance_in(allowances, call'.args.from,
                             SpenderOf(call')).allowance ]_vars

-----------------------------------------------------------------------------
\* No balance, no allowance and no total supply is below zero.
NonNegative ==
    /\ \A x \in DOMAIN balances : balances[x] >= 0
    /\ \A k \in DOMAIN allowances : allowances[k].allowance >= 0
    /\ token_data.total_supply >= 0

\* C29: without a restart, whenever a transfer, approve, transfer_from or burn
\* passes its validation, every subtraction it performs has a minuend at
\* least as large as its subtrahend (payer balance and deduction, allowance
\* and amount, total_supply and burned amount); the call does not abort, and
\* no balance, allowance or total_supply is negative afterwards.
C29_NoUnderflow ==
    [][ /\ ( /\ call'.op \in {"icrc1_transfer", "icrc2_transfer_from"}
              /\ result'.tag # "Err" )
              => balance_in(balances, PayerOf(call'))
                   >= call'.args.amount + FeePaid(call')
        /\ (call'.op = "icrc2_transfer_from" /\ result'.tag # "Err")
              => allowance_in(allowances, call'.args.from,
                              SpenderOf(call')).allowance >= call'.args.amount
        /\ (call'.op = "icrc2_approve" /\ result'.tag # "Err")
              => balance_in(balances, PayerOf(call')) >= FeePaid(call')
        /\ (call'.op = "burn" /\ result'.tag # "Err")
              => /\ balance_in(balances, call'.args.from) >= call'.args.amount
                 /\ token_data.total_supply >= call'.args.amount
        /\ result' # Trap
        /\ NonNegative' ]_vars

\* A burn of the whole balance of an account succeeded after a transfer had
\* taken the rest of it: the entry is gone, the supply stays positive.
C29_Witness ==
    /\ call.op = "burn"
    /\ result = Ok(2)
    /\ transactions[1].kind = "transfer"
    /\ call.args.from \notin DOMAIN balances
    /\ token_data.total_supply = 2 * FEE

-----------------------------------------------------------------------------
\* C30: a successful icrc1_transfer or icrc2_transfer_from whose destination
\* is its source account leaves the balance of that account reduced by
\* exactly the fee and every other balance as it was, whatever the balance
\* before; when the balance was amount + fee the entry removed by the debit
\* is there again after the credit.
C30_SelfTransferCostsFee ==
    [][ ( /\ call'.op \in {"icrc1_transfer", "icrc2_transfer_from"}
          /\ result'.tag = "Ok"
          /\ call'.args.to = PayerOf(call') )
          => /\ PayerOf(call') \in DOMAIN balances'
             /\ balances'[PayerOf(call')]
                   = balance_in(balances, PayerOf(call')) - FeePaid(call')
             /\ BalancesUnchangedBut({PayerOf(call')}) ]_vars

\* A transfer_from of an account to itself succeeded on a balance of exactly
\* amount + fee: the account holds the amount.
C30_Witness ==
    /\ call.op = "icrc2_transfer_from"
    /\ result.tag = "Ok"
    /\ call.args.to = call.args.from
    /\ call.args.amount = FEE
    /\ SpenderOf(call) # call.args.from
    /\ get(balances, call.args.from) = Some(FEE)

-----------------------------------------------------------------------------
\* C31: an icrc2_approve that passes the freshness and fee checks is rejected
\* with InsufficientFunds, carrying the owner's balance, exactly when that
\* balance is less than the fee; the approved amount plays no part: with a
\* balance that covers the fee and no other check violated the approve
\* succeeds, also for an amount larger than the balance.
C31_ApproveFundsCheck ==
    [][ ( /\ call'.op = "icrc2_approve"
          /\ ~ InFuture(call')
          /\ ~ IsTooOld(call')
          /\ ~ WrongFee(call') )
          => LET balance == balance_in(balances, PayerOf(call'))
             IN  /\ RejectedAs(result', "InsufficientFunds")
                       <=> balance < FeePaid(call')
                 /\ RejectedAs(result', "InsufficientFunds")
                       => result'.err = InsufficientFunds(balance)
                 /\ ( /\ balance >= FeePaid(call')
                      /\ ~ AllowanceDiffers(call')
                      /\ ~ ExpiryPassed(call') )
                       => result'.tag = "Ok" ]_vars

\* An approve of 2 fees succeeded on a balance of exactly one fee.
C31_Witness ==
    /\ call.op = "icrc2_approve"
    /\ returned_ok
    /\ call.args.amount = 2 * FEE
    /\ balance_in(balances, PayerOf(call)) = 0
    /\ allowances[<<PayerOf(call), call.args.spender>>].allowance = 2 * FEE

-----------------------------------------------------------------------------
(* The optional fields of a record and of its block.                       *)

\* The operation data of a record.
Payload(tx) ==
    IF tx.kind = "mint" THEN unwrap(tx.mint)
    ELSE IF tx.kind = "burn" THEN unwrap(tx.burn)
    ELSE IF tx.kind = "transfer" THEN unwrap(tx.transfer)
    ELSE unwrap(tx.approve)

\* The record has the field and the field is present; the spender of an
\* Approve is not optional.
Present(tx, key) ==
    /\ key \in DOMAIN Payload(tx)
    /\ \/ tx.kind = "approve" /\ key = "spender"
       \/ is_some(Payload(tx)[key])

Has(block, key) == Field(block, key) # None

\* The account a record holds under from, to or spender; the spender of a
\* Transfer or a Burn is optional.
AccountAt(tx, key) ==
    IF key = "spender" /\ tx.kind # "approve"
    THEN unwrap(Payload(tx).spender)
    ELSE Payload(tx)[key]

OptionalKeys == {"fee", "memo", "spender", "expires_at", "expected_allowance"}

\* The value renders the account: the owner bytes, then the subaccount bytes
\* when there is a subaccount, and nothing else.
RendersAccount(v, account) ==
    /\ Len(v.Array) = IF is_some(account.subaccount) THEN 2 ELSE 1
    /\ v.Array[1] = Value_Blob(as_slice(account.owner))
    /\ is_some(account.subaccount)
         => v.Array[2] = Value_Blob(to_vec(unwrap(account.subaccount)))

\* The block is the export of the record tx.
ExportsRecord(block, tx) ==
    /\ block.Map[1] = <<"ts", Value_Nat64(tx.timestamp)>>
    /\ Field(block, "op")
         = Some(Value_Text(IF tx.kind = "transfer" THEN "xfer" ELSE tx.kind))
    /\ \A key \in OptionalKeys : Has(block, key) <=> Present(tx, key)
    /\ \A key \in {"from", "to", "spender"} :
          Has(block, key)
            => RendersAccount(unwrap(Field(block, key)), AccountAt(tx, key))

\* C32: every block returned by icrc3_get_blocks is a map whose first key is
\* "ts" with the timestamp of the record and whose "op" is "mint", "burn",
\* "xfer" or "approve" by the kind of the record; fee, memo, spender,
\* expires_at and expected_allowance are keys of it exactly when the record
\* has the field; its accounts are arrays of the owner bytes, followed by the
\* subaccount bytes only when there is a subaccount.  The record a successful
\* operation appends has a fee for transfer, approve and transfer_from, none
\* for mint and burn, a spender for transfer_from and none for transfer, and
\* the memo, expires_at and expected_allowance of the call.
C32_ExportOmitsAbsentFields ==
    [][ /\ (call'.op = "icrc3_get_blocks" /\ result'.tag = "Returned")
              => \A i \in DOMAIN result'.value.blocks :
                    LET b == result'.value.blocks[i]
                    IN  /\ b.id \in DOMAIN transactions
                        /\ ExportsRecord(b.block, transactions[b.id])
        /\ (call'.op \in UpdateOps /\ result'.tag = "Ok")
              => \A i \in NewBlocks :
                    LET tx == transactions'[i]
                    IN  /\ tx.kind = (IF call'.op \in {"icrc1_transfer",
                                                      "icrc2_transfer_from"}
                                      THEN "transfer"
                                      ELSE OpText(call'))
                        /\ Present(tx, "fee") <=> call'.op \in FeeOps
                        /\ Present(tx, "spender")
                              <=> call'.op \in {"icrc2_transfer_from",
                                               "icrc2_approve"}
                        /\ call'.op \in FeeOps
                              => /\ Present(tx, "memo")
                                      <=> is_some(call'.args.memo)
                        /\ call'.op \in {"mint", "burn"}
                              => ~ Present(tx, "memo")
                        /\ call'.op = "icrc2_approve"
                              => /\ Present(tx, "expires_at")
                                      <=> is_some(call'.args.expires_at)
                                 /\ Present(tx, "expected_allowance")
                                      <=> is_some(call'.args.expected_allowance)
                        /\ call'.op # "icrc2_approve"
                              => /\ ~ Present(tx, "expires_at")
                                 /\ ~ Present(tx, "expected_allowance") ]_vars

\* icrc3_get_blocks returned a mint block without fee, an approve block with
\* expires_at and memo and without expected_allowance, and a transfer_from
\* block with spender and fee and without memo, from an account without
\* subaccount to one with.
C32_Witness ==
    /\ call.op = "icrc3_get_blocks"
    /\ result.tag = "Returned"
    /\ Len(result.value.blocks) = 3
    /\ LET b1 == result.value.blocks[1].block
           b2 == result.value.blocks[2].block
           b3 == result.value.blocks[3].block
       IN  /\ Field(b1, "op") = Some(Value_Text("mint"))
           /\ ~ Has(b1, "fee")
           /\ Field(b2, "op") = Some(Value_Text("approve"))
           /\ Has(b2, "expires_at")
           /\ Has(b2, "memo")
           /\ ~ Has(b2, "expected_allowance")
           /\ Field(b3, "op") = Some(Value_Text("xfer"))
           /\ Has(b3, "spender")
           /\ Has(b3, "fee")
           /\ ~ Has(b3, "memo")
           /\ Len(unwrap(Field(b3, "from")).Array) = 1
           /\ Len(unwrap(Field(b3, "to")).Array) = 2

-----------------------------------------------------------------------------
\* C33 (as claimed): icrc3_get_blocks returns an empty block list for every
\* start at or beyond log_length, whatever the length, a start beyond u64 and
\* a sum start + length beyond u64 included.
C33_EmptyBeyondLog ==
    [][ ( /\ call'.op = "icrc3_get_blocks"
          /\ call'.args.start >= len(transactions) )
          => /\ result'.tag = "Returned"
             /\ result'.value.blocks = <<>> ]_vars

-----------------------------------------------------------------------------
(* The times of a record.                                                  *)

\* The record's created_at_time lies in the freshness window that ends at its
\* timestamp (Transfer, Approve), or is its timestamp (Mint, Burn).
TimesAgree(tx) ==
    LET c == Payload(tx).created_at_time
        t == tx.timestamp
    IN  IF tx.kind \in {"mint", "burn"}
        THEN c = Some(t)
        ELSE is_some(c) => (t - TX_WINDOW <= unwrap(c) /\ unwrap(c) <= t)

\* C34: every record of the log is stamped with the ledger time of the call
\* that appended it; a Transfer or Approve record with a created_at_time c and
\* timestamp t has t - TX_WINDOW <= c <= t; a Mint or Burn record has
\* created_at_time equal to its timestamp.
C34_RecordTimes ==
    /\ [] (\A i \in DOMAIN transactions : TimesAgree(transactions[i]))
    /\ [][ \A i \in NewBlocks :
               /\ transactions'[i].timestamp = now
               /\ now' = now ]_vars

\* After the clock has moved, the log holds a record of the earlier instant, a
\* mint, and a transfer created exactly TX_WINDOW before it was applied.
C34_Witness ==
    /\ \E i \in DOMAIN transactions : transactions[i].kind = "mint"
    /\ \E i \in DOMAIN transactions :
          /\ transactions[i].kind = "transfer"
          /\ transactions[i].timestamp = T0 + 1
          /\ Payload(transactions[i]).created_at_time = Some(T0 + 1 - TX_WINDOW)
    /\ \E i \in DOMAIN transactions : transactions[i].timestamp = T0

-----------------------------------------------------------------------------
\* C35: the minting account is never absent, in the initial state and after
\* every sequence of operations, upgrades included; mint therefore refuses a
\* caller exactly when the caller is not the owner of the minting account.
C35_MintingAccountIsSet ==
    /\ [] is_some(token_data.minting_account)
    /\ [][ call'.op = "mint"
            => ( result'.tag = "Err"
                   <=> unwrap(token_data.minting_account).owner # call'.caller )
          ]_vars

\* After an upgrade the minting account was given to alice, and a mint by the
\* anonymous principal is refused.
C35_Witness ==
    /\ upgrades > 0
    /\ unwrap(token_data.minting_account).owner = Alice
    /\ call.op = "mint"
    /\ call.caller = Anonymous
    /\ returned_err

====
